---------------------------- MODULE Spec2Model ----------------------------
(***************************************************************************)
(* Verification model of the strategy signal engine of quant-strategy:     *)
(*   - the macro regime classifier   (src/ShortTerm/market_regime.py)      *)
(*   - the limit-up sector scanner   (src/Strategy_Event_ShortTerm/        *)
(*                                    scanner.py)                          *)
(*   - the value/trend gate and the universe filter of the long-horizon    *)
(*     optimizer (src/Strategy_Value_LongTerm/data_updater.py,             *)
(*     signal_filter.py, src/LongTerm/optimizer.py)                        *)
(*                                                                         *)
(* Units.  Floating point quantities are kept exact:                       *)
(*   - a relative change is a reduced fraction [num, den] (den > 0);       *)
(*   - the USD/CNY rate is in 1/1000 yuan (7200 is 7.2);                   *)
(*   - a position multiplier is in tenths (4 is 0.4);                      *)
(*   - a valuation percentile is in 1/1000 (400 is 0.4);                   *)
(*   - a trend score is in 1/300 (100 is 1/3), so that both n/3 and a      *)
(*     configured minimum given in hundredths are integers;                *)
(*   - a percent change of a stock is in 1/100 percent (950 is 9.5);       *)
(*   - a signal strength is in 1/1000 before rounding, 1/100 after.        *)
(* Chinese string literals of the source are transliterated.               *)
(***************************************************************************)
EXTENDS Integers, Sequences, FiniteSets, TLC

VARIABLES
    sources,       \* what the three macro sources answer to a fetch
    regimeCall,    \* the last call made on a MarketRegime object
    ztSource,      \* what the limit-up pool and sector index sources hold
    scanConfig,    \* the scanner's config.yaml
    scan,          \* the last call made on a LimitUpScanner object
    cache,         \* cache_dir: date -> cached zt_pool table, or NoFile
    signalsFile,   \* the file config['output']['signals_file']
    stock,         \* one symbol's price frame and the arguments of a gate call
    universe,      \* the price panel, the returns and the optimizer's config
    portfolio,     \* the arguments of an optimize_portfolio call and the solver's answer
    bars,          \* the high/low rows and the window of a calculate_rsrs call
    longRun,       \* the last call made on the long-horizon path
    closes,        \* the close prices and the period of a moving-average call
    daily,         \* where run_scanner.main stands and what it has displayed
    storage,       \* StorageEngine: the zt_pool files and the zt_pool_index table
    storageCall,   \* the last call made on a StorageEngine object
    dataManager,   \* LongTerm DataManager: pyarrow, data_versions and daily_signals
    shortSignals,  \* ShortTermDataManager: the daily signals JSON file
    dmCall         \* the last call made on a data manager

vars == <<sources, regimeCall, ztSource, scanConfig, scan, cache, signalsFile, stock, universe, portfolio, bars, longRun, closes, daily, storage, storageCall,
          dataManager, shortSignals, dmCall>>

regimeVars == <<sources, regimeCall>>
scannerVars == <<ztSource, scanConfig, scan, cache, signalsFile>>
longVars == <<stock, universe, portfolio, bars, longRun>>
dmVars == <<dataManager, shortSignals, dmCall>>
hubVars == <<closes, daily, storage, storageCall, dmVars>>

NoCall == [call |-> "none"]
NoFile == [kind |-> "nofile"]

\* ------------------------------------------------------------------------
\* Exact arithmetic helpers

Abs(x) == IF x < 0 THEN -x ELSE x

RECURSIVE GCD(_, _)
GCD(a, b) == IF b = 0 THEN a ELSE GCD(b, a % b)

\* The float n/d for d > 0, as a reduced fraction (0 is 0/1).
Ratio(n, d) ==
    LET g == GCD(Abs(n), d)
    IN  [num |-> n \div g, den |-> d \div g]

\* r > n/d, for fractions with positive denominators.
RatioGt(r, n, d) == r.num * d > n * r.den

RECURSIVE SumSeq(_)
SumSeq(s) == IF s = <<>> THEN 0 ELSE Head(s) + SumSeq(Tail(s))

\* ========================================================================
\* MarketRegime (src/ShortTerm/market_regime.py)
\* ========================================================================

\* What the three external sources may answer to one fetch.
\* ak.fx_spot_quote(): raises, has no USD/CNY row, or quotes an ask price.
\* chg5d is the pair's actual 5-day change in the market; the quote table
\* does not carry it.
FxRates == {7200, 7300}
FxChanges == {Ratio(0, 1), Ratio(25, 1000)}
FxOutcomes ==
    {[kind |-> "raise"], [kind |-> "norow"]}
    \cup {[kind |-> "ok", ask |-> a, chg5d |-> c] : a \in FxRates, c \in FxChanges}

\* ak.stock_hsgt_fund_flow_summary_em(): raises, has no north-bound row,
\* has north-bound rows without the net-buy column, or rows summing to net.
NorthNets == {-60, -50, -30, -20, 15}
NorthOutcomes ==
    {[kind |-> "raise"], [kind |-> "norow"], [kind |-> "nocol"]}
    \cup {[kind |-> "ok", net |-> n] : n \in NorthNets}

\* ak.spot_gold_sge(): raises, is empty, has fewer than 5 rows (latest
\* close), or has at least 5 rows (closes of row 0 and row 4).
GoldCloses == {505, 510, 515, 550}
GoldOutcomes ==
    {[kind |-> "raise"], [kind |-> "empty"]}
    \cup {[kind |-> "short", latest |-> l] : l \in GoldCloses}
    \cup {[kind |-> "full", latest |-> l, fifth |-> f] :
            l \in GoldCloses, f \in {500}}

DefaultRate == 7200
DefaultGold == 550

get_usd_cny_rate_market(fx) ==
    IF fx.kind = "ok"
    THEN [current |-> fx.ask, change_5d |-> fx.chg5d, date |-> "None"]
    ELSE [current |-> DefaultRate, change_5d |-> Ratio(0, 1), date |-> "None"]

get_usd_cny_rate(fx) ==
    IF fx.kind = "ok"
    THEN [current |-> fx.ask, change_5d |-> Ratio(0, 1), date |-> "None"]
    ELSE [current |-> DefaultRate, change_5d |-> Ratio(0, 1), date |-> "None"]

get_north_money_flow(nf) ==
    CASE nf.kind = "ok" ->
           [today |-> nf.net, recent_3d_avg |-> nf.net, recent_5d_avg |-> nf.net]
      [] nf.kind = "nocol" ->
           [today |-> 0, recent_3d_avg |-> 0, recent_5d_avg |-> 0]
      [] OTHER -> [recent_3d_avg |-> 0, today |-> 0]

get_gold_price_broken(g) ==
    CASE g.kind = "empty" -> [change_5d |-> Ratio(0, 1)]
      [] g.kind = "short" -> [current |-> g.latest, change_5d |-> Ratio(0, 1)]
      [] g.kind = "full" ->
           [current |-> g.latest, change_5d |-> Ratio(g.latest - g.fifth, g.fifth)]
      [] OTHER -> [change_5d |-> Ratio(0, 1)]

get_gold_price(g) ==
    CASE g.kind = "empty" -> [change_5d |-> Ratio(0, 1)]
      [] g.kind = "short" -> [current |-> g.latest, change_5d |-> Ratio(0, 1)]
      [] g.kind = "full" ->
           [current |-> g.latest, change_5d |-> Ratio(g.latest - g.fifth, g.fifth)]
      [] OTHER -> [current |-> DefaultGold, change_5d |-> Ratio(0, 1)]

\* Lines 112-117: the currency term.
CurrencyTerm(currency) ==
    IF RatioGt(currency.change_5d, 2, 100) THEN 4
    ELSE IF RatioGt(currency.change_5d, 1, 100) THEN 2 ELSE 0

NorthTerm_strict60(north_money) ==
    IF north_money.recent_3d_avg < -60 THEN 4
    ELSE IF north_money.recent_3d_avg < -20 THEN 2 ELSE 0

\* Lines 119-124: the north-bound flow term.
NorthTerm(north_money) ==
    IF north_money.recent_3d_avg < -50 THEN 4
    ELSE IF north_money.recent_3d_avg < -20 THEN 2 ELSE 0

\* Lines 126-129: the gold term.
GoldTerm(gold) == IF RatioGt(gold.change_5d, 2, 100) THEN 2 ELSE 0

Reasons(currency, north_money, gold) ==
    (IF RatioGt(currency.change_5d, 2, 100) THEN <<"currency_depreciating">> ELSE <<>>)
    \o (IF north_money.recent_3d_avg < -50 THEN <<"north_outflow">> ELSE <<>>)
    \o (IF RatioGt(gold.change_5d, 2, 100) THEN <<"risk_off">> ELSE <<>>)

RegimeOf(score) ==
    IF score >= 6 THEN "DEFENSIVE"
    ELSE IF score >= 3 THEN "NEUTRAL" ELSE "AGGRESSIVE"

\* get_market_status on the answers (fx, nf, g) of the three sources; the
\* timestamp field is left out.
get_market_status(fx, nf, g) ==
    LET currency == get_usd_cny_rate(fx)
        north_money == get_north_money_flow(nf)
        gold == get_gold_price(g)
        score == CurrencyTerm(currency) + NorthTerm(north_money) + GoldTerm(gold)
    IN  [regime |-> RegimeOf(score),
         score |-> score,
         reasons |-> Reasons(currency, north_money, gold),
         factors |-> [currency |-> currency,
                      north_money |-> north_money,
                      gold |-> gold]]

\* Lines 160-165, in tenths.
PositionOf(regime) ==
    IF regime = "AGGRESSIVE" THEN 10
    ELSE IF regime = "NEUTRAL" THEN 7 ELSE 4

\* Lines 173-178.
PreferenceOf(regime) ==
    IF regime = "DEFENSIVE" THEN <<"gold", "defense", "pharma", "utilities">>
    ELSE IF regime = "AGGRESSIVE" THEN <<"tech", "new_energy", "consumer", "brokers">>
    ELSE <<"soe_value", "high_dividend", "semiconductor">>

\* One call of a public method.  Each call fetches the three factors; the
\* call record keeps the state the call classified and what it returned.
RegimeCalled(name, ret) ==
    regimeCall' = [call |-> name,
                   status |-> get_market_status(sources.fx, sources.north, sources.gold),
                   ret |-> ret]

GetMarketStatus ==
    /\ RegimeCalled("get_market_status",
                    get_market_status(sources.fx, sources.north, sources.gold))
    /\ UNCHANGED <<sources, scannerVars, longVars, hubVars>>

GetPositionMultiplier ==
    /\ RegimeCalled("get_position_multiplier",
          PositionOf(get_market_status(sources.fx, sources.north, sources.gold).regime))
    /\ UNCHANGED <<sources, scannerVars, longVars, hubVars>>

GetSectorPreference ==
    /\ RegimeCalled("get_sector_preference",
          PreferenceOf(get_market_status(sources.fx, sources.north, sources.gold).regime))
    /\ UNCHANGED <<sources, scannerVars, longVars, hubVars>>

NoSources == [fx |-> [kind |-> "raise"], north |-> [kind |-> "raise"],
              gold |-> [kind |-> "raise"]]

RegimeIdle == sources = NoSources /\ regimeCall = NoCall

ScannerIdle ==
    /\ ztSource = [pool |-> [cols |-> {}, rows |-> <<>>], perf |-> <<>>]
    /\ scanConfig = [min_zt_count |-> 3]
    /\ scan = NoCall
    /\ cache = NoFile
    /\ signalsFile = NoFile

LongTermIdle ==
    stock = NoCall /\ universe = NoCall /\ portfolio = NoCall /\ bars = NoCall /\ longRun = NoCall

NoStorage == [files |-> <<>>, index |-> <<>>]

\* A DataManager on a fresh database, and no signals file.
NoTables == [pyarrow |-> TRUE, data_versions |-> <<>>, daily_signals |-> <<>>]
DmIdle == dataManager = NoTables /\ shortSignals = NoFile /\ dmCall = NoCall

HubIdle ==
    /\ closes = NoCall
    /\ daily = NoCall
    /\ storage = NoStorage
    /\ storageCall = NoCall
    /\ DmIdle

InitRegime ==
    /\ sources \in [fx : FxOutcomes, north : NorthOutcomes, gold : GoldOutcomes]
    /\ regimeCall = NoCall
    /\ ScannerIdle
    /\ LongTermIdle
    /\ HubIdle

NextRegime == GetMarketStatus \/ GetPositionMultiplier \/ GetSectorPreference

SpecRegime == InitRegime /\ [][NextRegime]_vars

\* ========================================================================
\* Claims about the regime classifier
\* ========================================================================

StatusReturned == regimeCall.call = "get_market_status"

\* The scoring rule as the specification words it, on the factor values
\* found in the returned factors record.
DocumentedScore(cc, nf, gc) ==
    (IF RatioGt(cc, 2, 100) THEN 4 ELSE IF RatioGt(cc, 1, 100) THEN 2 ELSE 0)
    + (IF nf < -50 THEN 4 ELSE IF nf < -20 THEN 2 ELSE 0)
    + (IF RatioGt(gc, 2, 100) THEN 2 ELSE 0)

\* C2: the score returned by get_market_status is the documented sum of
\* the currency, north-bound flow and gold terms of the factor values in
\* its factors record; the regime is DEFENSIVE iff score >= 6, NEUTRAL iff
\* 3 <= score < 6, AGGRESSIVE iff score < 3; the score is within [0, 10].
C2_ScoreAndRegime ==
    StatusReturned =>
        LET s == regimeCall.ret
            f == s.factors
        IN  /\ s.score = DocumentedScore(f.currency.change_5d,
                                         f.north_money.recent_3d_avg,
                                         f.gold.change_5d)
            /\ (s.regime = "DEFENSIVE") <=> (s.score >= 6)
            /\ (s.regime = "NEUTRAL") <=> (3 <= s.score /\ s.score < 6)
            /\ (s.regime = "AGGRESSIVE") <=> (s.score < 3)
            /\ s.score \in 0..10

\* A status with heavy north-bound outflow and a gold rally: score 6.
C2_Witness ==
    /\ StatusReturned
    /\ regimeCall.ret.factors.north_money.recent_3d_avg < -50
    /\ RatioGt(regimeCall.ret.factors.gold.change_5d, 2, 100)
    /\ regimeCall.ret.score = 6
    /\ regimeCall.ret.regime = "DEFENSIVE"

\* The specification's example: the currency has moved 2.5% in 5 days, the
\* north-bound flow is -60 and gold has moved 1%.
ExampleMarket ==
    /\ sources.fx.kind = "ok" /\ sources.fx.chg5d = Ratio(25, 1000)
    /\ sources.north.kind = "ok" /\ sources.north.net = -60
    /\ sources.gold.kind = "full"
    /\ Ratio(sources.gold.latest - sources.gold.fifth, sources.gold.fifth) = Ratio(1, 100)

\* C3: in the example market the classifier yields score 8, DEFENSIVE and
\* position multiplier 0.4; the multiplier is 1.0 / 0.7 / 0.4 for
\* AGGRESSIVE / NEUTRAL / DEFENSIVE and the sector preference is the list
\* of the regime classified by the call.
C3_ExampleAndMultiplier ==
    /\ (regimeCall.call = "get_position_multiplier" /\ ExampleMarket) =>
          /\ regimeCall.status.score = 8
          /\ regimeCall.status.regime = "DEFENSIVE"
          /\ regimeCall.ret = 4
    /\ regimeCall.call = "get_position_multiplier" =>
          regimeCall.ret = (CASE regimeCall.status.regime = "AGGRESSIVE" -> 10
                              [] regimeCall.status.regime = "NEUTRAL" -> 7
                              [] regimeCall.status.regime = "DEFENSIVE" -> 4)
    /\ regimeCall.call = "get_sector_preference" =>
          regimeCall.ret = PreferenceOf(regimeCall.status.regime)

\* The contribution of one factor to the score, 0 for a factor whose fetch
\* raised.
LiveTerm(raised, term) == IF raised THEN 0 ELSE term

\* C4: when the fetch of a factor raises, get_market_status still returns
\* a record with regime, score and factors; the failed factor carries its
\* documented default and contributes 0 to the score, whatever the other
\* two fetches did.
C4_DefaultsOnFailure ==
    StatusReturned =>
        LET s == regimeCall.ret
            f == s.factors
            fxRaised == sources.fx.kind = "raise"
            northRaised == sources.north.kind = "raise"
            goldRaised == sources.gold.kind = "raise"
        IN  /\ {"regime", "score", "factors"} \subseteq DOMAIN s
            /\ s.regime \in {"AGGRESSIVE", "NEUTRAL", "DEFENSIVE"}
            /\ fxRaised =>
                  /\ f.currency.current = 7200
                  /\ f.currency.change_5d = Ratio(0, 1)
            /\ northRaised => f.north_money.recent_3d_avg = 0
            /\ goldRaised =>
                  /\ "current" \in DOMAIN f.gold
                  /\ f.gold.current = 550
                  /\ f.gold.change_5d = Ratio(0, 1)
            /\ s.score = LiveTerm(fxRaised, CurrencyTerm(f.currency))
                         + LiveTerm(northRaised, NorthTerm(f.north_money))
                         + LiveTerm(goldRaised, GoldTerm(f.gold))

\* The gold fetch raised while the north-bound flow was fetched and scored.
C4_Witness ==
    /\ StatusReturned
    /\ sources.gold.kind = "raise"
    /\ sources.north.kind = "ok"
    /\ sources.fx.kind = "ok"
    /\ regimeCall.ret.score = 4
    /\ regimeCall.ret.factors.gold.current = 550

\* Every status get_market_status can return when no fetch raises.
StatusesWithoutFailure ==
    {get_market_status(fx, nf, g) :
        fx \in {o \in FxOutcomes : o.kind # "raise"},
        nf \in {o \in NorthOutcomes : o.kind # "raise"},
        g \in {o \in GoldOutcomes : o.kind # "raise"}}

SomeFetchRaised ==
    \/ sources.fx.kind = "raise"
    \/ sources.north.kind = "raise"
    \/ sources.gold.kind = "raise"

\* C5: a status returned after a fetch raised records the failure, so it
\* differs from every status returned when no fetch raises.
C5_FailureRecorded ==
    (StatusReturned /\ SomeFetchRaised) =>
        regimeCall.ret \notin StatusesWithoutFailure

\* ========================================================================
\* LimitUpScanner (src/Strategy_Event_ShortTerm/scanner.py)
\* ========================================================================

MaxHead == 2      \* rows of a table that are chosen freely
MaxTail == 9      \* further rows of the first sector that follow them

\* The sector names, in the order groupby sorts its keys.  A row may also
\* have no sector (NaN): groupby drops it and no comparison matches it.
Sectors == <<"A", "B">>
SectorSet == {Sectors[i] : i \in DOMAIN Sectors}
NaNSector == "nan"
AllCols == {"sector", "name", "pct"}

\* pd.DataFrame(): no columns, no rows.
EmptyFrame == [cols |-> {}, rows |-> <<>>]

\* The tables the pool source may hold for the scan date: up to MaxHead
\* free rows followed by up to MaxTail rows of the first sector; the same free
\* rows without the sector column; a table without columns.  A row's name
\* is its position in the table.
HeadRows ==
    {[sector |-> s, pct |-> p] : s \in SectorSet, p \in {950, 1000}}
    \cup {[sector |-> NaNSector, pct |-> 1000]}
Heads == UNION {[1..n -> HeadRows] : n \in 0..MaxHead}
Tails == {[i \in 1..k |-> [sector |-> Sectors[1], pct |-> 1000]] : k \in 0..MaxTail}
Named(rs) ==
    [i \in 1..Len(rs) |-> [sector |-> rs[i].sector, name |-> i, pct |-> rs[i].pct]]
Unsectored(rs) == [i \in 1..Len(rs) |-> [name |-> i, pct |-> rs[i].pct]]
Pools ==
    {[cols |-> AllCols, rows |-> Named(h \o t)] : h \in Heads, t \in Tails}
    \cup {[cols |-> AllCols \ {"sector"}, rows |-> Unsectored(h)] : h \in Heads \ {<<>>}}
    \cup {EmptyFrame}

\* What ak.stock_board_industry_cons_ths answers for a sector: it fails
\* (or is too short), or it shows a falling or a rising 5-day window.
PerfOutcomes == {"fail", "down", "up"}

\* DataFrame.empty
IsEmpty(df) == df.cols = {} \/ df.rows = <<>>

\* DataFrame.to_csv(cache_file, index=False): a header line and the rows.
ToCsv(df) == [kind |-> "file", header |-> df.cols, lines |-> df.rows]

\* pd.read_csv(cache_file): a file without a header line has no columns to
\* parse, which raises EmptyDataError.
ReadCsv(file) ==
    IF file.header = {}
    THEN [kind |-> "raise", error |-> "EmptyDataError"]
    ELSE [kind |-> "ok", value |-> [cols |-> file.header, rows |-> file.lines]]

\* get_today_zt_pool, given whether the source answers this call
\* ("ok") or raises: what it returns and the cache it leaves.
get_today_zt_pool(avail) ==
    IF cache # NoFile
    THEN [ret |-> ReadCsv(cache), cache |-> cache, fetched |-> FALSE]
    ELSE IF avail = "ok"
    THEN [ret |-> [kind |-> "ok", value |-> ztSource.pool],
          cache |-> ToCsv(ztSource.pool), fetched |-> TRUE]
    ELSE [ret |-> [kind |-> "ok", value |-> EmptyFrame],
          cache |-> cache, fetched |-> TRUE]

RECURSIVE CountRows(_, _)
CountRows(rows, sector) ==
    IF rows = <<>> THEN 0
    ELSE (IF Head(rows).sector = sector THEN 1 ELSE 0) + CountRows(Tail(rows), sector)

RECURSIVE HeatOf(_, _)
HeatOf(rows, keys) ==
    IF keys = <<>> THEN <<>>
    ELSE LET n == CountRows(rows, Head(keys))
         IN  (IF n > 0
              THEN <<[sector |-> Head(keys), limit_up_count |-> n]>>
              ELSE <<>>) \o HeatOf(rows, Tail(keys))

\* calculate_sector_heat: NoHeat is the pd.DataFrame() of line 83.
NoHeat == [kind |-> "noheat"]
calculate_sector_heat(df) ==
    IF IsEmpty(df) \/ "sector" \notin df.cols
    THEN NoHeat
    ELSE [kind |-> "heat", rows |-> HeatOf(df.rows, Sectors)]

RECURSIVE AtLeast(_, _)
AtLeast(heat, min_count) ==
    IF heat = <<>> THEN <<>>
    ELSE (IF Head(heat).limit_up_count >= min_count THEN <<Head(heat)>> ELSE <<>>)
         \o AtLeast(Tail(heat), min_count)

\* sort_values('limit_up_count', ascending=False): on the few rows of a
\* heat table numpy's default sort is an insertion sort, and pandas sorts
\* the reversed column and reverses the result, so rows with equal counts
\* keep their order.
RECURSIVE InsertDesc(_, _)
InsertDesc(x, sorted) ==
    IF sorted = <<>> THEN <<x>>
    ELSE IF Head(sorted).limit_up_count >= x.limit_up_count
         THEN <<Head(sorted)>> \o InsertDesc(x, Tail(sorted))
         ELSE <<x>> \o sorted

RECURSIVE SortDescFrom(_, _)
SortDescFrom(todo, sorted) ==
    IF todo = <<>> THEN sorted
    ELSE SortDescFrom(Tail(todo), InsertDesc(Head(todo), sorted))

SortDesc_unsorted(heat) == heat

SortDesc(heat) == SortDescFrom(heat, <<>>)

HotSectors_strict(heat, min_count) == SortDesc(AtLeast(heat, min_count + 1))

\* Lines 159-161.
HotSectors(heat, min_count) == SortDesc(AtLeast(heat, min_count))

\* analyze_sector_performance: {} on any failure.
EmptyDict == <<>>
analyze_sector_performance(sector) ==
    CASE ztSource.perf[sector] = "up" ->
           [sector |-> sector, period_return |-> 5, volatility |-> 2]
      [] ztSource.perf[sector] = "down" ->
           [sector |-> sector, period_return |-> -5, volatility |-> 2]
      [] OTHER -> EmptyDict

\* dict.get(key, 0)
GetOr0(dict, key) == IF key \in DOMAIN dict THEN dict[key] ELSE 0

RECURSIVE RowsOf(_, _)
RowsOf(rows, sector) ==
    IF rows = <<>> THEN <<>>
    ELSE (IF Head(rows).sector = sector THEN <<Head(rows)>> ELSE <<>>)
         \o RowsOf(Tail(rows), sector)

DetailOf_largest(df, row) ==
    LET perf == analyze_sector_performance(row.sector)
        zt_stocks == RowsOf(df.rows, row.sector)
        lead == CHOOSE i \in 1..Len(zt_stocks) :
                   \A j \in 1..Len(zt_stocks) :
                      \/ zt_stocks[i].pct > zt_stocks[j].pct
                      \/ zt_stocks[i].pct = zt_stocks[j].pct /\ i <= j
    IN  [sector |-> row.sector,
         zt_count |-> row.limit_up_count,
         lead_stock |-> zt_stocks[lead].name,
         lead_stock_pct |-> zt_stocks[lead].pct,
         performance_5d |-> GetOr0(perf, "period_return"),
         volatility |-> GetOr0(perf, "volatility")]

\* Lines 172-187: the detail of one hot sector.
DetailOf(df, row) ==
    LET perf == analyze_sector_performance(row.sector)
        zt_stocks == RowsOf(df.rows, row.sector)
    IN  [sector |-> row.sector,
         zt_count |-> row.limit_up_count,
         lead_stock |-> IF Len(zt_stocks) > 0 THEN zt_stocks[1].name ELSE 0,
         lead_stock_pct |-> IF Len(zt_stocks) > 0 THEN zt_stocks[1].pct ELSE 0,
         performance_5d |-> GetOr0(perf, "period_return"),
         volatility |-> GetOr0(perf, "volatility")]

CountCap == 10          \* min(zt_count / 10, 1.0)
HardBoardPct == 950     \* lead_stock_pct > 9.5
AttentionAt == 500      \* strength_score >= 0.5

Min(a, b) == IF a < b THEN a ELSE b

StrengthScore_uncapped(detail) ==
    50 * detail.zt_count
    + (IF detail.lead_stock_pct > HardBoardPct THEN 300 ELSE 0)
    + (IF detail.performance_5d > 0 THEN 200 ELSE 0)

\* Lines 193-197, in 1/1000.
StrengthScore(detail) ==
    50 * Min(detail.zt_count, CountCap)
    + (IF detail.lead_stock_pct > HardBoardPct THEN 300 ELSE 0)
    + (IF detail.performance_5d > 0 THEN 200 ELSE 0)

\* round(x, 2) of a strength in 1/1000, in 1/100.
Round2(x) == (x + 5) \div 10

\* Lines 199-205: the signal of one hot sector.
SignalOf(detail) ==
    LET strength_score == StrengthScore(detail)
    IN  [sector |-> detail.sector,
         action |-> IF strength_score >= AttentionAt THEN "attention" ELSE "watch",
         strength |-> Round2(strength_score),
         reason |-> <<detail.zt_count, detail.lead_stock>>]

ScanDate == "20240102"

BundleOf_sectored(df, heat, min_count) ==
    LET hot_sectors == HotSectors(heat, min_count)
        sector_details == [i \in 1..Len(hot_sectors) |-> DetailOf(df, hot_sectors[i])]
        signals == [i \in 1..Len(sector_details) |-> SignalOf(sector_details[i])]
    IN  [date |-> ScanDate,
         total_zt_count |-> SumSeq([i \in 1..Len(heat) |-> heat[i].limit_up_count]),
         hot_sectors |-> sector_details,
         signals |-> signals,
         generated_at |-> "now"]

\* Lines 154-214 on a non-empty table that has a heat table.
BundleOf(df, heat, min_count) ==
    LET hot_sectors == HotSectors(heat, min_count)
        sector_details == [i \in 1..Len(hot_sectors) |-> DetailOf(df, hot_sectors[i])]
        signals == [i \in 1..Len(sector_details) |-> SignalOf(sector_details[i])]
    IN  [date |-> ScanDate,
         total_zt_count |-> Len(df.rows),
         hot_sectors |-> sector_details,
         signals |-> signals,
         generated_at |-> "now"]

SignalsFor_written(df) ==
    IF IsEmpty(df)
    THEN [ret |-> [kind |-> "ok",
                   value |-> [date |-> ScanDate, hot_sectors |-> <<>>,
                              message |-> "no_limit_up_data"]],
          written |-> TRUE]
    ELSE LET heat == calculate_sector_heat(df)
         IN  IF "min_zt_count" \notin DOMAIN scanConfig
             THEN [ret |-> [kind |-> "raise", error |-> "KeyError"],
                   written |-> FALSE]
             ELSE IF heat = NoHeat
             THEN [ret |-> [kind |-> "raise", error |-> "KeyError"],
                   written |-> FALSE]
             ELSE [ret |-> [kind |-> "ok",
                            value |-> BundleOf(df, heat.rows, scanConfig.min_zt_count)],
                   written |-> TRUE]

\* generate_daily_signals on the table it obtained: what it returns (or
\* raises) and whether it writes the signals file.
SignalsFor(df) ==
    IF IsEmpty(df)
    THEN [ret |-> [kind |-> "ok",
                   value |-> [date |-> ScanDate, hot_sectors |-> <<>>,
                              message |-> "no_limit_up_data"]],
          written |-> FALSE]
    ELSE LET heat == calculate_sector_heat(df)
         IN  IF "min_zt_count" \notin DOMAIN scanConfig
             THEN \* line 156: self.config['event_params']['min_zt_count']
                  [ret |-> [kind |-> "raise", error |-> "KeyError"],
                   written |-> FALSE]
             ELSE IF heat = NoHeat
             THEN \* heat['limit_up_count'] on a frame without columns
                  [ret |-> [kind |-> "raise", error |-> "KeyError"],
                   written |-> FALSE]
             ELSE [ret |-> [kind |-> "ok",
                            value |-> BundleOf(df, heat.rows, scanConfig.min_zt_count)],
                   written |-> TRUE]

\* A call of get_today_zt_pool(date).
GetTodayZtPool ==
    /\ \E avail \in {"ok", "raise"} :
          LET p == get_today_zt_pool(avail)
          IN  /\ scan' = [call |-> "get_today_zt_pool", ret |-> p.ret]
              /\ cache' = p.cache
    /\ UNCHANGED <<ztSource, scanConfig, signalsFile, regimeVars, longVars, hubVars>>

\* A call of generate_daily_signals(date).  `table` is the table the call
\* obtained from get_today_zt_pool.
ScanStep ==
    \E avail \in {"ok", "raise"} :
       LET p == get_today_zt_pool(avail)
       IN  /\ cache' = p.cache
           /\ IF p.ret.kind = "raise"
              THEN /\ scan' = [call |-> "generate_daily_signals", ret |-> p.ret]
                   /\ UNCHANGED signalsFile
              ELSE LET r == SignalsFor(p.ret.value)
                   IN  /\ scan' = [call |-> "generate_daily_signals",
                                   table |-> p.ret.value, ret |-> r.ret]
                       /\ signalsFile' = IF r.written
                                         THEN [kind |-> "file", content |-> r.ret.value]
                                         ELSE signalsFile

GenerateDailySignals ==
    /\ ScanStep
    /\ UNCHANGED <<ztSource, scanConfig, regimeVars, longVars, hubVars>>

InitScanner ==
    /\ ztSource \in [pool : Pools, perf : [SectorSet -> PerfOutcomes]]
    /\ scanConfig \in [min_zt_count : {1, 3}] \cup {EmptyDict}
    /\ scan = NoCall
    /\ cache = NoFile
    /\ signalsFile = NoFile
    /\ RegimeIdle
    /\ LongTermIdle
    /\ HubIdle

NextScanner == GetTodayZtPool \/ GenerateDailySignals

SpecScanner == InitScanner /\ [][NextScanner]_vars

\* The signals file a scan of an earlier date has left.
EarlierSignals ==
    [kind |-> "file",
     content |-> [date |-> "20240101", total_zt_count |-> 1, hot_sectors |-> <<>>,
                  signals |-> <<>>, generated_at |-> "earlier"]]

\* The scanner started where an earlier scan may have left its output.
InitScanFile ==
    /\ ztSource \in [pool : Pools, perf : {[s \in SectorSet |-> "up"]}]
    /\ scanConfig \in [min_zt_count : {1, 3}]
    /\ scan = NoCall
    /\ cache = NoFile
    /\ signalsFile \in {NoFile, EarlierSignals}
    /\ RegimeIdle
    /\ LongTermIdle
    /\ HubIdle

SpecScanFile == InitScanFile /\ [][NextScanner]_vars

\* ========================================================================
\* Claims about the scanner
\* ========================================================================

\* generate_daily_signals has returned the bundle of a non-empty table.
BundleReturned ==
    /\ scan.call = "generate_daily_signals"
    /\ scan.ret.kind = "ok"
    /\ "signals" \in DOMAIN scan.ret.value

\* The number of rows of the scanned table whose sector is s.
RowsIn(s) ==
    Cardinality({i \in 1..Len(scan.table.rows) : scan.table.rows[i].sector = s})

QualifyingSectors == {s \in SectorSet : RowsIn(s) >= scanConfig.min_zt_count}

\* C6: the hot-sector list holds exactly the sectors with at least
\* min_zt_count rows in the table, each once, with zt_count the number of
\* its rows, in non-increasing order of zt_count.
C6_HotSectors ==
    BundleReturned =>
        LET hot == scan.ret.value.hot_sectors
        IN  /\ {hot[i].sector : i \in 1..Len(hot)} = QualifyingSectors
            /\ Len(hot) = Cardinality(QualifyingSectors)
            /\ \A i \in 1..Len(hot) : hot[i].zt_count = RowsIn(hot[i].sector)
            /\ \A i \in 1..Len(hot) : \A j \in i..Len(hot) :
                  hot[i].zt_count >= hot[j].zt_count

\* Five rows of sector A with minimum 3: A is hot with count 5.
C6_Witness ==
    /\ BundleReturned
    /\ scanConfig.min_zt_count = 3
    /\ RowsIn("A") = 5
    /\ \E i \in 1..Len(scan.ret.value.hot_sectors) :
          /\ scan.ret.value.hot_sectors[i].sector = "A"
          /\ scan.ret.value.hot_sectors[i].zt_count = 5

\* The documented strength, in 1/100: 0.5 min(c/10, 1) + 0.3 [p > 9.5] +
\* 0.2 [f > 0].
DocumentedStrength(c, p, f) ==
    (IF c >= 10 THEN 50 ELSE 5 * c)
    + (IF p > 950 THEN 30 ELSE 0)
    + (IF f > 0 THEN 20 ELSE 0)

\* C7: the reported strength of every signal is the documented function of
\* its sector's event count, lead-stock percent change and 5-day
\* performance, lies in [0, 1], and the action is 'attention' iff the
\* reported strength is >= 0.5, 'watch' otherwise.
C7_Strength ==
    BundleReturned =>
        LET hot == scan.ret.value.hot_sectors
            signals == scan.ret.value.signals
        IN  \A i \in 1..Len(signals) :
               /\ signals[i].strength =
                     DocumentedStrength(hot[i].zt_count, hot[i].lead_stock_pct,
                                        hot[i].performance_5d)
               /\ signals[i].strength \in 0..100
               /\ signals[i].action \in {"attention", "watch"}
               /\ (signals[i].action = "attention") <=> (signals[i].strength >= 50)

\* Ten events, a lead stock at 10.0 percent and a rising sector: strength
\* 1.0, 'attention'.
C7_Witness ==
    /\ BundleReturned
    /\ \E i \in 1..Len(scan.ret.value.signals) :
          /\ scan.ret.value.hot_sectors[i].zt_count = 10
          /\ scan.ret.value.hot_sectors[i].lead_stock_pct = 1000
          /\ scan.ret.value.hot_sectors[i].performance_5d > 0
          /\ scan.ret.value.signals[i].strength = 100
          /\ scan.ret.value.signals[i].action = "attention"

\* C8: with a valid configuration every daily scan returns a
\* DailySignalBundle with the fields date, total event count, hot sectors,
\* signals and generation time, and no exception escapes, also for an
\* empty table and for a table without the sector column.
C8_AlwaysABundle ==
    (scan.call = "generate_daily_signals" /\ "min_zt_count" \in DOMAIN scanConfig) =>
        /\ scan.ret.kind = "ok"
        /\ {"date", "total_zt_count", "hot_sectors", "signals", "generated_at"}
              \subseteq DOMAIN scan.ret.value

\* The part of C8 about a non-empty table without the sector column.
C8_NoSectorColumn ==
    (/\ scan.call = "generate_daily_signals"
     /\ "min_zt_count" \in DOMAIN scanConfig
     /\ "table" \in DOMAIN scan
     /\ scan.table.rows # <<>>
     /\ "sector" \notin scan.table.cols) => scan.ret.kind = "ok"

\* The outputs of two calls agree in every field but the timestamp.
SameButTimestamp(a, b) ==
    /\ a.kind = b.kind
    /\ a.kind = "raise" => a.error = b.error
    /\ a.kind = "ok" =>
          /\ DOMAIN a.value = DOMAIN b.value
          /\ \A f \in DOMAIN a.value \ {"generated_at"} : a.value[f] = b.value[f]

\* C14: two consecutive scans on the same table, configuration and source
\* answers return the same output in every field but the timestamp, also
\* when the second scan reads the table the first one cached.
C14_ScanTwice ==
    [][(/\ scan.call = "generate_daily_signals"
        /\ scan'.call = "generate_daily_signals")
       => SameButTimestamp(scan.ret, scan'.ret)]_vars

\* The part of C14 about the regime classifier.
C14_ClassifyTwice ==
    [][(/\ regimeCall.call = "get_market_status"
        /\ regimeCall'.call = "get_market_status")
       => regimeCall'.ret = regimeCall.ret]_vars

\* C16: a scanner whose configuration lacks the minimum event count never
\* runs a scan.
C16_NoScanWithoutThreshold ==
    scan.call = "generate_daily_signals" => "min_zt_count" \in DOMAIN scanConfig

\* The part of C16 about the optimizer: it never optimizes under a
\* configuration that lacks a weight bound.
C16_NoOptimizationWithoutBounds ==
    longRun.call = "optimize_portfolio" =>
        {"max_weight", "min_weight"} \subseteq DOMAIN portfolio.constraints

\* The position of the first row of the scanned table whose sector is s.
FirstRowOf(s) ==
    CHOOSE i \in 1..Len(scan.table.rows) :
        /\ scan.table.rows[i].sector = s
        /\ \A j \in 1..(i - 1) : scan.table.rows[j].sector # s

\* C19: hot sectors with the same event count are listed in the order in
\* which they first appear in the rows of the table.
C19_TiesInRowOrder ==
    BundleReturned =>
        LET hot == scan.ret.value.hot_sectors
        IN  \A i \in 1..Len(hot) : \A j \in (i + 1)..Len(hot) :
               hot[i].zt_count = hot[j].zt_count
                  => FirstRowOf(hot[i].sector) < FirstRowOf(hot[j].sector)

\* C20: the lead stock of a hot sector is the first row of the table whose
\* sector is that sector, and lead_stock_pct is that row's percent change.
C20_LeadIsFirstRow ==
    BundleReturned =>
        LET hot == scan.ret.value.hot_sectors
        IN  \A i \in 1..Len(hot) :
               LET first == scan.table.rows[FirstRowOf(hot[i].sector)]
               IN  /\ hot[i].lead_stock = first.name
                   /\ hot[i].lead_stock_pct = first.pct

\* A hot sector whose first row has a smaller percent change than a later
\* row of the same sector.
C20_Witness ==
    /\ BundleReturned
    /\ \E i \in 1..Len(scan.ret.value.hot_sectors) :
          LET d == scan.ret.value.hot_sectors[i]
          IN  /\ d.lead_stock = scan.table.rows[FirstRowOf(d.sector)].name
              /\ d.lead_stock_pct = 950
              /\ \E k \in 1..Len(scan.table.rows) :
                    /\ scan.table.rows[k].sector = d.sector
                    /\ scan.table.rows[k].pct = 1000

\* The event counts of the hot sectors of the returned bundle.
HotCounts ==
    [i \in 1..Len(scan.ret.value.hot_sectors) |-> scan.ret.value.hot_sectors[i].zt_count]

\* C25: in a returned bundle the signals and the hot sectors have the same
\* length and the same sector at every position, every signal's sector has
\* at least min_zt_count rows in the table, total_zt_count is the number
\* of rows of the table, and the zt_count of the hot sectors sum to at
\* most total_zt_count.
C25_BundleConsistent ==
    BundleReturned =>
        LET value == scan.ret.value
        IN  /\ Len(value.signals) = Len(value.hot_sectors)
            /\ \A i \in 1..Len(value.signals) :
                  /\ value.signals[i].sector = value.hot_sectors[i].sector
                  /\ RowsIn(value.signals[i].sector) >= scanConfig.min_zt_count
            /\ value.total_zt_count = Len(scan.table.rows)
            /\ SumSeq(HotCounts) <= value.total_zt_count

\* Two hot sectors and a row that belongs to no hot sector.
C25_Witness ==
    /\ BundleReturned
    /\ Len(scan.ret.value.signals) = 2
    /\ SumSeq(HotCounts) < scan.ret.value.total_zt_count

\* C26: a scan whose table is empty leaves the signals file as it was, and
\* a scan that returns the bundle of a non-empty table leaves exactly that
\* bundle in the file.
C26_FileFrame ==
    [][(scan'.call = "generate_daily_signals" /\ "table" \in DOMAIN scan')
       => /\ IsEmpty(scan'.table) => signalsFile' = signalsFile
          /\ (~IsEmpty(scan'.table) /\ scan'.ret.kind = "ok")
                => signalsFile' = [kind |-> "file", content |-> scan'.ret.value]]_vars

\* A scan met an empty table and the file still holds the earlier bundle.
C26_Witness ==
    /\ scan.call = "generate_daily_signals"
    /\ "table" \in DOMAIN scan
    /\ IsEmpty(scan.table)
    /\ signalsFile = EarlierSignals

\* C27: a call of get_today_zt_pool that finds no cache entry and whose
\* fetch raises returns an empty table and leaves no entry; a call whose
\* fetch succeeds returns the fetched table and leaves an entry; every
\* call that finds an entry returns the cached table and leaves the entry
\* as it is.
C27_CacheProtocol ==
    [][scan'.call = "get_today_zt_pool"
       => /\ cache # NoFile =>
                /\ cache' = cache
                /\ scan'.ret = [kind |-> "ok",
                                value |-> [cols |-> cache.header, rows |-> cache.lines]]
          /\ (cache = NoFile /\ cache' = NoFile) =>
                /\ scan'.ret.kind = "ok"
                /\ IsEmpty(scan'.ret.value)
          /\ (cache = NoFile /\ cache' # NoFile) =>
                scan'.ret = [kind |-> "ok", value |-> ztSource.pool]]_vars

\* ========================================================================
\* Value/trend gate (src/Strategy_Value_LongTerm/data_updater.py,
\* signal_filter.py) and universe filter (src/LongTerm/optimizer.py)
\* ========================================================================

\* A price frame is described by its number of rows and by what the three
\* indicators compute on it at its last row:
\*   ma_ok   price above the moving average and the average rising over the
\*           last 20 rows;
\*   rsrs_z  the last RSRS z-score in 1/100, or NaN;
\*   llt_ok  price above the low-lag trend line and the line rising.
SlopeLag == 20        \* ma.iloc[-20]
RsrsN == 18           \* calculate_rsrs(df, n=18)
ZscoreWindow == 600   \* rolling(600)
ValueThreshold == 400 \* pe_percentile < 0.4
LowPeThreshold == 20  \* pe_percentile < 0.2, on the 2-decimal value
MinObservations == 250
DefaultRsrsSignalThreshold == 100  \* rsrs_signal(threshold=1.0)

FrameLens == {0, 1, 10, 100, 700}
MaPeriods == {5, 60, 250}
\* The float NaN of an undefined rolling statistic, as a value no z-score takes.
NaN == -999
ZScores == {NaN, 80, 120}
RsrsThresholds == {70, 100}
\* Valuation percentiles in 1/1000; none is a rounding tie of round(p, 2).
Percentiles == {150, 196, 300, 396, 400, 600}

\* The indicator values a frame of `len` rows can have: the moving average
\* of ma_period rows is defined 20 rows back only from ma_period + 19 rows
\* on; a z-score needs 600 slopes, the first 18 of which are undefined.
Feasible(len, ma_period, ma_ok, rsrs_z) ==
    /\ ma_ok => len >= ma_period + SlopeLag - 1
    /\ rsrs_z # NaN => len >= RsrsN + ZscoreWindow

\* z > threshold on floats: a NaN compares False.
ZGreater(z, threshold) == z # NaN /\ z > threshold

\* round(pe_percentile, 2), in 1/100.
RoundPct(pe) == (pe + 5) \div 10

BoolCount(a, b, c) ==
    (IF a THEN 1 ELSE 0) + (IF b THEN 1 ELSE 0) + (IF c THEN 1 ELSE 0)

VerdictOf_three(is_undervalued, trend_signals) ==
    IF is_undervalued /\ trend_signals > 2 THEN "STRONG_BUY"
    ELSE IF is_undervalued /\ trend_signals >= 1 THEN "WATCH_LIST"
    ELSE IF is_undervalued /\ trend_signals = 0 THEN "WAIT"
    ELSE "IGNORE"

\* The final if-chain of analyze_stock (lines 159-166) and of
\* check_buy_signal (lines 324-331).
VerdictOf(is_undervalued, trend_signals) ==
    IF is_undervalued /\ trend_signals >= 2 THEN "STRONG_BUY"
    ELSE IF is_undervalued /\ trend_signals = 1 THEN "WATCH_LIST"
    ELSE IF is_undervalued /\ trend_signals = 0 THEN "WAIT"
    ELSE "IGNORE"

\* TrendAnalyzer.analyze_stock(df, pe_percentile, ma_period, rsrs_threshold)
analyze_stock(frame, pe_percentile, ma_period, rsrs_threshold) ==
    IF frame.len < ma_period
    THEN [status |-> "INSUFFICIENT_DATA", reason |-> frame.len]
    ELSE LET is_undervalued == pe_percentile < ValueThreshold
             ma_ok == frame.ma_ok
             rsrs_ok == ZGreater(frame.rsrs_z, rsrs_threshold)
             llt_ok == frame.llt_ok
             trend_signals == BoolCount(ma_ok, rsrs_ok, llt_ok)
         IN  [status |-> VerdictOf(is_undervalued, trend_signals),
              value_score |-> IF is_undervalued THEN 1 ELSE 0,
              trend_score |-> 100 * trend_signals,
              pe_percentile |-> RoundPct(pe_percentile),
              details |-> [ma_ok |-> ma_ok, rsrs_zscore |-> frame.rsrs_z,
                           rsrs_ok |-> rsrs_ok, llt_ok |-> llt_ok]]

\* TrendFilter.check_buy_signal(df, pe_percentile, ma_period,
\* rsrs_threshold): the RSRS signal is taken from rsrs_signal(df), whose
\* threshold is its own default; ma_trend_status is NEUTRAL on a frame
\* shorter than ma_period.
check_buy_signal(frame, pe_percentile, ma_period, rsrs_threshold) ==
    LET is_undervalued == pe_percentile < ValueThreshold
        ma_ok == frame.len >= ma_period /\ frame.ma_ok
        rsrs_ok == ZGreater(frame.rsrs_z, DefaultRsrsSignalThreshold)
        llt_ok == frame.len > 2 /\ frame.llt_ok
        trend_signals == BoolCount(ma_ok, rsrs_ok, llt_ok)
    IN  [status |-> VerdictOf(is_undervalued, trend_signals),
         value_score |-> IF is_undervalued THEN 1 ELSE 0,
         trend_score |-> 100 * trend_signals,
         details |-> [ma_ok |-> ma_ok, rsrs_ok |-> rsrs_ok, llt_ok |-> llt_ok]]

Returned(v) == [kind |-> "ok", value |-> v]
Raised(e) == [kind |-> "raise", error |-> e]

\* A call of DataUpdater.analyze_stock: past the length guard of line 115,
\* line 134 reads the moving average 20 rows back (iloc[-20]), which is out
\* of bounds on a frame of fewer than 20 rows.
AnalyzeStockCall(frame, pe_percentile, ma_period, rsrs_threshold) ==
    IF frame.len >= ma_period /\ frame.len < SlopeLag
    THEN Raised("IndexError")
    ELSE Returned(analyze_stock(frame, pe_percentile, ma_period, rsrs_threshold))

\* A call of TrendFilter.check_buy_signal: calculate_llt (line 304) assigns
\* llt[0] and llt[1] (lines 222-223) whatever the length of the frame.
CheckBuySignalCall(frame, pe_percentile, ma_period, rsrs_threshold) ==
    IF frame.len < 2
    THEN Raised("IndexError")
    ELSE Returned(check_buy_signal(frame, pe_percentile, ma_period, rsrs_threshold))

AnalyzeStock ==
    /\ longRun = NoCall
    /\ longRun' = [call |-> "analyze_stock",
                   ret |-> AnalyzeStockCall(stock.frame, stock.pe,
                                            stock.ma_period, stock.rsrs_threshold)]
    /\ UNCHANGED <<stock, universe, portfolio, bars, regimeVars, scannerVars, hubVars>>

CheckBuySignal ==
    /\ longRun = NoCall
    /\ longRun' = [call |-> "check_buy_signal",
                   ret |-> CheckBuySignalCall(stock.frame, stock.pe,
                                              stock.ma_period, stock.rsrs_threshold)]
    /\ UNCHANGED <<stock, universe, portfolio, bars, regimeVars, scannerVars, hubVars>>

GateInputs ==
    {i \in [frame : [len : FrameLens, ma_ok : BOOLEAN, rsrs_z : ZScores, llt_ok : BOOLEAN],
            pe : Percentiles, ma_period : MaPeriods, rsrs_threshold : RsrsThresholds] :
        /\ Feasible(i.frame.len, i.ma_period, i.frame.ma_ok, i.frame.rsrs_z)
        \* the trend line has a direction from two rows on
        /\ i.frame.llt_ok => i.frame.len >= 2}

InitGate ==
    /\ stock \in GateInputs
    /\ universe = NoCall
    /\ portfolio = NoCall
    /\ bars = NoCall
    /\ longRun = NoCall
    /\ RegimeIdle
    /\ ScannerIdle
    /\ HubIdle

NextGate == AnalyzeStock \/ CheckBuySignal

SpecGate == InitGate /\ [][NextGate]_vars

\* ------------------------------------------------------------------------
\* DataUpdater.analyze_all_stocks and PortfolioOptimizer.run

\* prices.columns
Symbols == <<"S1", "S2", "S3">>
SymbolSet == {Symbols[i] : i \in DOMAIN Symbols}

\* The trend_filter section of config.yaml; min_trend_score in 1/300
\* (99 is 0.33, 201 is 0.67).
MinTrendScores == {0, 99, 201}
TrendConfigs ==
    [enabled : BOOLEAN, min_trend_score : MinTrendScores,
     ma_period : {250}, rsrs_threshold : {70}]

\* What the indicators compute on a symbol's column, and the number of
\* non-null observations of its return column.  analyze_all_stocks derives
\* high and low from close (lines 390-392), so the RSRS slope is constant up
\* to floating-point rounding and its z-score is rounding noise: it may be
\* undefined or on either side of the threshold.
SymbolTrends ==
    {[ma_ok |-> FALSE, rsrs_z |-> NaN, llt_ok |-> FALSE],
     [ma_ok |-> TRUE, rsrs_z |-> NaN, llt_ok |-> FALSE],
     [ma_ok |-> FALSE, rsrs_z |-> 120, llt_ok |-> TRUE],
     [ma_ok |-> TRUE, rsrs_z |-> 120, llt_ok |-> TRUE]}
NoTrend == [ma_ok |-> FALSE, rsrs_z |-> NaN, llt_ok |-> FALSE]

\* A panel has one length for all its columns.  A panel of 100 rows has no
\* defined indicator of period 250 and fewer than 250 returns.
Panels ==
    {[len |-> 700, trend |-> t, obs |-> o] :
        t \in [SymbolSet -> SymbolTrends], o \in [SymbolSet -> {200, 300}]}
    \cup {[len |-> 100, trend |-> [s \in SymbolSet |-> NoTrend],
           obs |-> [s \in SymbolSet |-> 99]]}

FrameOf(panel, symbol) ==
    [len |-> panel.len, ma_ok |-> panel.trend[symbol].ma_ok,
     rsrs_z |-> panel.trend[symbol].rsrs_z, llt_ok |-> panel.trend[symbol].llt_ok]

\* The pe_percentiles argument of analyze_all_stocks: None, or a dict that
\* may lack symbols.
NonePe == [given |-> FALSE]
DefaultPeAll == 300     \* {symbol: 0.3 for symbol in prices.columns}
DefaultPeMissing == 500 \* pe_percentiles.get(symbol, 0.5)
PeMaps ==
    {<<>>,
     [s \in {"S1"} |-> 150],
     [s \in {"S1", "S2"} |-> IF s = "S1" THEN 196 ELSE 600],
     [s \in SymbolSet |-> IF s = "S1" THEN 150 ELSE IF s = "S2" THEN 396 ELSE 400]}

PeArgs == {NonePe} \cup {[given |-> TRUE, map |-> m] : m \in PeMaps}

PeOf(pe_percentiles, symbol) ==
    IF ~pe_percentiles.given THEN DefaultPeAll
    ELSE IF symbol \in DOMAIN pe_percentiles.map THEN pe_percentiles.map[symbol]
    ELSE DefaultPeMissing

\* Lines 383-415: the loop over prices.columns.  The report line of a
\* symbol reads result['details'], which an INSUFFICIENT_DATA result does
\* not have: the loop ends in a KeyError at the first such symbol.
RECURSIVE AnalyzeLoop(_, _, _, _, _)
AnalyzeLoop(symbols, panel, pe_percentiles, config, results) ==
    IF symbols = <<>> THEN Returned(results)
    ELSE LET symbol == Head(symbols)
             call == AnalyzeStockCall(FrameOf(panel, symbol),
                                      PeOf(pe_percentiles, symbol),
                                      config.ma_period, config.rsrs_threshold)
             result == call.value
         IN  IF call.kind = "raise" THEN call
             ELSE IF "details" \notin DOMAIN result
             THEN Raised("KeyError")
             ELSE AnalyzeLoop(Tail(symbols), panel, pe_percentiles, config,
                              [s \in DOMAIN results \cup {symbol} |->
                                 IF s = symbol THEN result ELSE results[s]])

analyze_all_stocks(panel, pe_percentiles, config) ==
    AnalyzeLoop(Symbols, panel, pe_percentiles, config, <<>>)

PassesFilter_strict(result, min_score) ==
    IF result.value_score = 1 /\ result.trend_score > min_score THEN TRUE
    ELSE result.pe_percentile < LowPeThreshold

\* Lines 166-170 of optimizer.py.
PassesFilter(result, min_score) ==
    IF result.value_score = 1 /\ result.trend_score >= min_score THEN TRUE
    ELSE result.pe_percentile < LowPeThreshold

RECURSIVE SelectSymbols(_, _, _)
SelectSymbols(symbols, results, min_score) ==
    IF symbols = <<>> THEN <<>>
    ELSE (IF PassesFilter(results[Head(symbols)], min_score)
          THEN <<Head(symbols)>> ELSE <<>>)
         \o SelectSymbols(Tail(symbols), results, min_score)

\* Lines 173-177.
RECURSIVE ValidSymbols(_, _)
ValidSymbols(symbols, obs) ==
    IF symbols = <<>> THEN <<>>
    ELSE (IF obs[Head(symbols)] >= MinObservations THEN <<Head(symbols)>> ELSE <<>>)
         \o ValidSymbols(Tail(symbols), obs)

\* ------------------------------------------------------------------------
\* PortfolioOptimizer.optimize_portfolio (src/LongTerm/optimizer.py)
\*
\* Unrounded weights are exact fractions; bounds and returned (rounded)
\* weights are in 1/10000.

MaxAssets == 5
DefaultMaxWeight == 2000   \* constraints.get('max_weight', 0.20)
DefaultMinWeight == 200    \* constraints.get('min_weight', 0.02)
WeightScale == 10000       \* round(4)

\* The `constraints` section of config.yaml; it may lack either key, or
\* be absent altogether.
ConstraintConfigs ==
    {<<>>,
     [max_weight |-> 5000],
     [max_weight |-> 5000, min_weight |-> 2500],
     [max_weight |-> 3000, min_weight |-> 1000]}

GetOr(dict, key, default) == IF key \in DOMAIN dict THEN dict[key] ELSE default

\* Lines 61-63 and 78.
BoundsOf(constraints) ==
    [w_max |-> GetOr(constraints, "max_weight", DefaultMaxWeight),
     w_min |-> GetOr(constraints, "min_weight", DefaultMinWeight)]

RatioSum(a, b) == Ratio(a.num * b.den + b.num * a.den, a.den * b.den)

RECURSIVE SumRatios(_)
SumRatios(ws) ==
    IF ws = <<>> THEN Ratio(0, 1) ELSE RatioSum(Head(ws), SumRatios(Tail(ws)))

\* w_min <= w <= w_max on an unrounded weight.
WithinBounds(w, bounds) ==
    /\ w.num * WeightScale >= bounds.w_min * w.den
    /\ w.num * WeightScale <= bounds.w_max * w.den

InitialWeights_short(n) == [i \in 1..n |-> Ratio(1, n + 1)]

\* Line 81: np.ones(n) / n.
InitialWeights(n) == [i \in 1..n |-> Ratio(1, n)]

\* The values a converged solution is built from.
WeightGrid ==
    {Ratio(1, 10), Ratio(1, 6), Ratio(1, 5), Ratio(1, 4), Ratio(3, 10),
     Ratio(1, 3), Ratio(1, 2)}
RunGrid == {Ratio(1, 4), Ratio(1, 3), Ratio(1, 2)}

\* What scipy.optimize.minimize answers (lines 84-99): it converges
\* (result.success) on a point that satisfies the equality constraint and
\* the bounds, reports non-convergence, or raises.  It cannot converge
\* when no point satisfies both.
SolverAnswers(n, bounds, grid) ==
    {[kind |-> "success", x |-> x] :
        x \in {y \in [1..n -> grid] :
                 /\ SumRatios(y) = Ratio(1, 1)
                 /\ \A i \in 1..n : WithinBounds(y[i], bounds)}}
    \cup {[kind |-> "not_converged"], [kind |-> "raise"]}

\* Series.round(4) of a positive weight, in 1/10000.  No weight of the
\* model lies halfway between two 4-decimal values.
Round4(w) == (2 * w.num * WeightScale + w.den) \div (2 * w.den)

\* optimize_portfolio(returns): `columns` is returns.columns, `answer` the
\* solver's answer to the call made from the equal weights.
optimize_portfolio(columns, constraints, answer) ==
    LET n == Len(columns)
        initial_weights == InitialWeights(n)
        weights == IF answer.kind = "success" THEN answer.x ELSE initial_weights
    IN  [i \in 1..n |-> [symbol |-> columns[i], weight |-> Round4(weights[i])]]

OptimizePortfolio ==
    /\ longRun = NoCall
    /\ longRun' = [call |-> "optimize_portfolio",
                   ret |-> Returned(optimize_portfolio(portfolio.columns,
                                                       portfolio.constraints,
                                                       portfolio.answer))]
    /\ UNCHANGED <<stock, universe, portfolio, bars, regimeVars, scannerVars, hubVars>>

AssetNames == <<"S1", "S2", "S3", "S4", "S5", "S6">>

InitOptimizer ==
    /\ \E n \in 1..MaxAssets, constraints \in ConstraintConfigs :
          \E answer \in SolverAnswers(n, BoundsOf(constraints), WeightGrid) :
             portfolio = [columns |-> SubSeq(AssetNames, 1, n),
                          constraints |-> constraints, answer |-> answer]
    /\ stock = NoCall
    /\ universe = NoCall
    /\ bars = NoCall
    /\ longRun = NoCall
    /\ RegimeIdle
    /\ ScannerIdle
    /\ HubIdle

NextOptimizer == OptimizePortfolio

SpecOptimizer == InitOptimizer /\ [][NextOptimizer]_vars

\* ------------------------------------------------------------------------
\* PortfolioOptimizer.run (src/LongTerm/optimizer.py)

Fallback_below1(kept, all) == IF Len(kept) < 1 THEN all ELSE kept

\* Lines 181-183.
Fallback(kept, all) == IF Len(kept) < 2 THEN all ELSE kept

\* Lines 149-183 of run: `kept` is filtered_symbols after line 177,
\* `symbols` after line 183.
TrendFilterStep(panel, config, apply_trend_filter) ==
    LET apply == IF apply_trend_filter = "None" THEN config.enabled
                 ELSE apply_trend_filter = "True"
    IN  IF ~apply
        THEN Returned([filtered |-> FALSE, analysis_results |-> <<>>,
                       symbols |-> Symbols])
        ELSE LET analysis == analyze_all_stocks(panel, NonePe, config)
             IN  IF analysis.kind = "raise" THEN analysis
                 ELSE LET kept == ValidSymbols(
                                     SelectSymbols(Symbols, analysis.value,
                                                   config.min_trend_score),
                                     panel.obs)
                      IN  Returned([filtered |-> TRUE,
                                    analysis_results |-> analysis.value,
                                    kept |-> kept,
                                    symbols |-> Fallback(kept, Symbols)])

\* PortfolioOptimizer.run(apply_trend_filter): the weights and the
\* analysis results it returns (the metrics are not modelled).  `answer`
\* is the solver's answer to the optimization of the chosen symbols.
run(panel, config, constraints, apply_trend_filter, answer) ==
    LET chosen == TrendFilterStep(panel, config, apply_trend_filter)
    IN  IF chosen.kind = "raise" THEN chosen
        ELSE Returned([f \in DOMAIN chosen.value \cup {"weights"} |->
                         IF f = "weights"
                         THEN optimize_portfolio(chosen.value.symbols, constraints, answer)
                         ELSE chosen.value[f]])

AnalyzeAllStocks ==
    /\ longRun = NoCall
    /\ \E pe_percentiles \in PeArgs :
          longRun' = [call |-> "analyze_all_stocks",
                      pe_percentiles |-> pe_percentiles,
                      ret |-> analyze_all_stocks(universe.panel, pe_percentiles,
                                                 universe.config)]
    /\ UNCHANGED <<stock, universe, portfolio, bars, regimeVars, scannerVars, hubVars>>

Run ==
    /\ longRun = NoCall
    /\ \E apply_trend_filter \in {"None", "True", "False"} :
          LET chosen == TrendFilterStep(universe.panel, universe.config,
                                        apply_trend_filter)
              answers == IF chosen.kind = "raise" THEN {[kind |-> "raise"]}
                         ELSE SolverAnswers(Len(chosen.value.symbols),
                                            BoundsOf(universe.constraints), RunGrid)
          IN  \E answer \in answers :
                 longRun' = [call |-> "run",
                             apply_trend_filter |-> apply_trend_filter,
                             ret |-> run(universe.panel, universe.config,
                                         universe.constraints,
                                         apply_trend_filter, answer)]
    /\ UNCHANGED <<stock, universe, portfolio, bars, regimeVars, scannerVars, hubVars>>

InitLongTerm ==
    /\ universe \in [panel : Panels, config : TrendConfigs,
                    constraints : {[max_weight |-> 5000]}]
    /\ stock = NoCall
    /\ portfolio = NoCall
    /\ bars = NoCall
    /\ longRun = NoCall
    /\ RegimeIdle
    /\ ScannerIdle
    /\ HubIdle

NextLongTerm == AnalyzeAllStocks \/ Run

SpecLongTerm == InitLongTerm /\ [][NextLongTerm]_vars

\* ------------------------------------------------------------------------
\* The RSRS slope series (calculate_rsrs of signal_filter.py and of
\* data_updater.py, the same loop in both)

MaxRows == 4      \* rows of a frame
MaxWindow == 3    \* regression window n

\* High and low prices in tenths: 0.1 and 0.5.
PriceLevels == {1, 5}

\* Tenths v for which the mean of three copies of the float v/10 is not
\* that float: 0.1 + 0.1 + 0.1 is 0.30000000000000004 and its third is
\* 0.10000000000000002.  Two, four or five copies of these values, and any
\* number of copies of 0.5, have the exact mean.
InexactThirds == {1, 7}

NanEntry == [kind |-> "nan"]
SlopeEntry(r) == [kind |-> "slope", value |-> r]

AllEqual(xs) == \A i, j \in DOMAIN xs : xs[i] = xs[j]

\* Series.std() == 0.  std is the square root of the sum of the squared
\* distances to the mean over count - 1: NaN on one value, and 0 on equal
\* values only when their mean comes out as the value itself.
StdIsZero(xs) ==
    /\ Len(xs) >= 2
    /\ AllEqual(xs)
    /\ ~(Len(xs) = 3 /\ xs[1] \in InexactThirds)

\* stats.linregress(x, y) on non-empty x: it refuses x values that are all
\* identical when there are several of them; on a single point the slope
\* is 0/0.  Otherwise the least-squares slope, exact here (with y constant
\* up to rounding it is zero up to rounding).
linregress(x, y) ==
    LET n == Len(x)
         xy == [i \in 1..n |-> x[i] * y[i]]
         xx == [i \in 1..n |-> x[i] * x[i]]
    IN  IF n > 1 /\ AllEqual(x) THEN Raised("ValueError")
        ELSE IF n = 1 THEN Returned(NanEntry)
        ELSE Returned(SlopeEntry(Ratio(n * SumSeq(xy) - SumSeq(x) * SumSeq(y),
                                       n * SumSeq(xx) - SumSeq(x) * SumSeq(x))))

\* The body of the loop for the row at position i, counted from 0: the
\* window is iloc[i-n:i], the n rows before row i.
RsrsEntry(rows, n, i) ==
    IF i < n THEN Returned(NanEntry)
    ELSE LET highs == [k \in 1..n |-> rows[i - n + k].high]
             lows == [k \in 1..n |-> rows[i - n + k].low]
         IN  IF StdIsZero(lows) \/ StdIsZero(highs) THEN Returned(NanEntry)
             ELSE linregress(lows, highs)

\* for i in range(len(df)), appending to rsrs_values; an exception of
\* linregress ends the call.
RECURSIVE RsrsLoop(_, _, _, _)
RsrsLoop(rows, n, i, rsrs_values) ==
    IF i >= Len(rows) THEN Returned(rsrs_values)
    ELSE LET entry == RsrsEntry(rows, n, i)
         IN  IF entry.kind = "raise" THEN entry
             ELSE RsrsLoop(rows, n, i + 1, Append(rsrs_values, entry.value))

calculate_rsrs(rows, n) == RsrsLoop(rows, n, 0, <<>>)

CalculateRsrs ==
    /\ longRun = NoCall
    /\ longRun' = [call |-> "calculate_rsrs", ret |-> calculate_rsrs(bars.rows, bars.n)]
    /\ UNCHANGED <<stock, universe, portfolio, bars, regimeVars, scannerVars, hubVars>>

BarFrames ==
    UNION {[1..len -> [high : PriceLevels, low : PriceLevels]] : len \in 0..MaxRows}

InitRsrs ==
    /\ bars \in [rows : BarFrames, n : 1..MaxWindow]
    /\ stock = NoCall
    /\ universe = NoCall
    /\ portfolio = NoCall
    /\ longRun = NoCall
    /\ RegimeIdle
    /\ ScannerIdle
    /\ HubIdle

NextRsrs == CalculateRsrs

SpecRsrs == InitRsrs /\ [][NextRsrs]_vars

\* ------------------------------------------------------------------------
\* The moving-average trend status (TrendFilter.ma_trend_status of
\* signal_filter.py and the MA step of TrendAnalyzer.analyze_stock)

\* Close prices in 1/1000.  A frame is flat at BasePrice except for the rows
\* at the offsets from the last row that FreeOffsets lists; the steps are
\* such that no slope falls on the threshold.
BasePrice == 10000
PriceSteps == {0, 30, 200}
FreeOffsets == {0, 1, 19, 20, 21}
SeriesLens == {1, 19, 20, 21, 24}
MaWindows == {2, 5, 25}

\* The threshold 0.001 of a strong trend, in 1/1000.
StrongSlope == 1

CloseFrames ==
    {[i \in 1..len |-> BasePrice + (IF len - i \in FreeOffsets THEN f[len - i] ELSE 0)] :
        len \in SeriesLens, f \in [FreeOffsets -> PriceSteps]}

\* rolling(window).mean() at row i (from 1), as the sum of the window: NaN
\* on the first window - 1 rows.
RollingSum(close, window, i) ==
    IF i < window THEN NaN ELSE SumSeq(SubSeq(close, i - window + 1, i))

\* The status for a last price, the window sum of the moving average at
\* the last row and at an earlier row: the slope is their difference over
\* 20, compared with 0.001 and 0; a NaN compares False.
StatusOf(price, window, ma_sum, past_sum) ==
    LET above == price * window > ma_sum
        below == price * window < ma_sum
        d == ma_sum - past_sum
        strong == SlopeLag * window * StrongSlope
    IN  IF past_sum = NaN THEN "NEUTRAL"
        ELSE IF above /\ d > strong THEN "STRONG_UP"
        ELSE IF above /\ d > 0 THEN "UP"
        ELSE IF below /\ d < -strong THEN "STRONG_DOWN"
        ELSE IF below /\ d < 0 THEN "DOWN"
        ELSE "NEUTRAL"

\* Lines 71-94 of signal_filter.py: iloc[-20] is the row 19 rows before the
\* last one.
ma_trend_status(close, ma_period) ==
    LET len == Len(close)
    IN  IF len < ma_period THEN "NEUTRAL"
        ELSE IF len < SlopeLag THEN "NEUTRAL"
        ELSE StatusOf(close[len], ma_period,
                      RollingSum(close, ma_period, len),
                      RollingSum(close, ma_period, len - SlopeLag + 1))

\* Lines 130-136 of data_updater.py, reached on len(df) >= ma_period:
\* ma_ok = current_price > ma_value and ma_slope > 0.
analyze_stock_ma_ok(close, ma_period) ==
    LET len == Len(close)
        ma_sum == RollingSum(close, ma_period, len)
        past_sum == RollingSum(close, ma_period, len - SlopeLag + 1)
    IN  IF len < SlopeLag THEN Raised("IndexError")
        ELSE Returned(/\ close[len] * ma_period > ma_sum
                      /\ past_sum # NaN
                      /\ ma_sum - past_sum > 0)

MaTrendStatus ==
    /\ longRun = NoCall
    /\ longRun' = [call |-> "ma_trend_status",
                   ret |-> ma_trend_status(closes.close, closes.ma_period)]
    /\ UNCHANGED <<stock, universe, portfolio, bars, closes, daily, storage, storageCall, dmVars, regimeVars, scannerVars>>

AnalyzeStockMa ==
    /\ longRun = NoCall
    /\ Len(closes.close) >= closes.ma_period
    /\ longRun' = [call |-> "analyze_stock_ma",
                   ret |-> analyze_stock_ma_ok(closes.close, closes.ma_period)]
    /\ UNCHANGED <<stock, universe, portfolio, bars, closes, daily, storage, storageCall, dmVars, regimeVars, scannerVars>>

InitMa ==
    /\ closes \in [close : CloseFrames, ma_period : MaWindows]
    /\ daily = NoCall
    /\ storage = NoStorage
    /\ storageCall = NoCall
    /\ DmIdle
    /\ stock = NoCall
    /\ universe = NoCall
    /\ portfolio = NoCall
    /\ bars = NoCall
    /\ longRun = NoCall
    /\ RegimeIdle
    /\ ScannerIdle

NextMa == MaTrendStatus \/ AnalyzeStockMa

SpecMa == InitMa /\ [][NextMa]_vars

\* ------------------------------------------------------------------------
\* The daily entry point (src/ShortTerm/run_scanner.py, main)

\* The answers the macro sources give while main runs; they may change
\* between two fetches.
DailySources ==
    [fx : {[kind |-> "raise"], [kind |-> "ok", ask |-> 7300, chg5d |-> Ratio(25, 1000)]},
     north : {[kind |-> "raise"], [kind |-> "ok", net |-> -60], [kind |-> "ok", net |-> -30]},
     gold : {[kind |-> "raise"], [kind |-> "full", latest |-> 515, fifth |-> 500]}]

\* The sources move on between two fetches.
SourcesChange ==
    /\ daily.pc \in {"start", "status", "multiplier"}
    /\ sources' \in DailySources \ {sources}
    /\ UNCHANGED <<regimeCall, daily, scannerVars, longVars, closes, storage, storageCall, dmVars>>

\* Lines 27-33: regime.get_market_status() and the display of its regime,
\* score and reasons.
MainStatus ==
    /\ daily.pc = "start"
    /\ LET status == get_market_status(sources.fx, sources.north, sources.gold)
       IN  /\ RegimeCalled("get_market_status", status)
           /\ daily' = [pc |-> "status", regime |-> status.regime,
                        score |-> status.score, reasons |-> status.reasons]
    /\ UNCHANGED <<sources, scannerVars, longVars, closes, storage, storageCall, dmVars>>

\* Line 34: the display of regime.get_position_multiplier().
MainMultiplier ==
    /\ daily.pc = "status"
    /\ LET status == get_market_status(sources.fx, sources.north, sources.gold)
           multiplier == PositionOf(status.regime)
       IN  /\ RegimeCalled("get_position_multiplier", multiplier)
           /\ daily' = [pc |-> "multiplier", regime |-> daily.regime,
                        score |-> daily.score, reasons |-> daily.reasons,
                        multiplier |-> multiplier]
    /\ UNCHANGED <<sources, scannerVars, longVars, closes, storage, storageCall, dmVars>>

\* Line 35: the display of regime.get_sector_preference().
MainPreference ==
    /\ daily.pc = "multiplier"
    /\ LET status == get_market_status(sources.fx, sources.north, sources.gold)
           preference == PreferenceOf(status.regime)
       IN  /\ RegimeCalled("get_sector_preference", preference)
           /\ daily' = [pc |-> "preference", regime |-> daily.regime,
                        score |-> daily.score, reasons |-> daily.reasons,
                        multiplier |-> daily.multiplier,
                        preference |-> preference]
    /\ UNCHANGED <<sources, scannerVars, longVars, closes, storage, storageCall, dmVars>>

\* Lines 39-57: the scan and the display of its signals.
MainScan ==
    /\ daily.pc = "preference"
    /\ ScanStep
    /\ daily' = [daily EXCEPT !.pc = "done"]
    /\ UNCHANGED <<ztSource, scanConfig, regimeVars, longVars, closes, storage, storageCall, dmVars>>

DailyPools ==
    {[cols |-> {}, rows |-> <<>>],
     [cols |-> {"name", "sector", "pct"},
      rows |-> <<[name |-> 1, sector |-> "A", pct |-> 1000]>>]}

InitDaily ==
    /\ sources \in DailySources
    /\ regimeCall = NoCall
    /\ daily = [pc |-> "start"]
    /\ ztSource \in [pool : DailyPools, perf : {[s \in SectorSet |-> "fail"]}]
    /\ scanConfig = [min_zt_count |-> 1]
    /\ scan = NoCall
    /\ cache = NoFile
    /\ signalsFile = NoFile
    /\ LongTermIdle
    /\ closes = NoCall
    /\ storage = NoStorage
    /\ storageCall = NoCall
    /\ DmIdle

NextDaily ==
    SourcesChange \/ MainStatus \/ MainMultiplier \/ MainPreference \/ MainScan

SpecDaily == InitDaily /\ [][NextDaily]_vars

\* ------------------------------------------------------------------------
\* StorageEngine, the ZT pool operations (src/DataHub/core/storage_engine.py)

\* Dates are day numbers: YYYYMMDD strings compare as the days they name.
MaxDay == 3
Today == 3
PoolDays == 1..MaxDay
KeepDays == {0, 1, 2}

\* The tables handed to save_zt_pool: without columns, with columns and no
\* rows (both empty), or with rows.
ZtTables ==
    {EmptyFrame,
     [cols |-> {"name"}, rows |-> <<>>],
     [cols |-> {"name"}, rows |-> <<[name |-> 1]>>],
     [cols |-> {"name"}, rows |-> <<[name |-> 1], [name |-> 2]>>]}

Put(f, k, v) == [x \in DOMAIN f \cup {k} |-> IF x = k THEN v ELSE f[x]]
Drop(f, ks) == [x \in DOMAIN f \ ks |-> f[x]]

save_zt_pool_unchecked(st, df, date, written) ==
    IF ~written
    THEN [storage |-> st, ret |-> FALSE]
    ELSE [storage |-> [files |-> Put(st.files, date, df),
                       index |-> Put(st.index, date, [record_count |-> Len(df.rows)])],
          ret |-> TRUE]

\* save_zt_pool(df, date); `written` tells whether to_parquet succeeds (a
\* failure is caught and leaves file and index as they were).
save_zt_pool(st, df, date, written) ==
    IF IsEmpty(df) THEN [storage |-> st, ret |-> FALSE]
    ELSE IF ~written
    THEN [storage |-> st, ret |-> FALSE]
    ELSE [storage |-> [files |-> Put(st.files, date, df),
                       index |-> Put(st.index, date, [record_count |-> Len(df.rows)])],
          ret |-> TRUE]

\* load_zt_pool(date)
load_zt_pool(st, date) ==
    IF date \notin DOMAIN st.files THEN EmptyFrame ELSE st.files[date]

\* list_zt_pool_dates()
list_zt_pool_dates(st) == DOMAIN st.index

\* delete_old_zt_pool(days); `stuck` are the dates whose file unlink()
\* refuses to remove (the error is caught and the index row is kept).
delete_old_zt_pool(st, days, stuck) ==
    LET cutoff == Today - days
        to_delete == {d \in DOMAIN st.index : d < cutoff}
        removed == {d \in to_delete : d \in DOMAIN st.files /\ d \notin stuck}
    IN  [storage |-> [files |-> Drop(st.files, removed),
                      index |-> Drop(st.index, removed)],
         ret |-> Cardinality(removed)]

SaveZtPool ==
    /\ \E df \in ZtTables, date \in PoolDays, written \in BOOLEAN :
          LET r == save_zt_pool(storage, df, date, written)
          IN  /\ storage' = r.storage
              /\ storageCall' = [call |-> "save_zt_pool", df |-> df, date |-> date,
                                 ret |-> r.ret]
    /\ UNCHANGED <<regimeVars, scannerVars, longVars, closes, daily, dmVars>>

LoadZtPool ==
    /\ \E date \in PoolDays :
          storageCall' = [call |-> "load_zt_pool", date |-> date,
                          ret |-> load_zt_pool(storage, date)]
    /\ UNCHANGED <<storage, regimeVars, scannerVars, longVars, closes, daily, dmVars>>

ListZtPoolDates ==
    /\ storageCall' = [call |-> "list_zt_pool_dates", ret |-> list_zt_pool_dates(storage)]
    /\ UNCHANGED <<storage, regimeVars, scannerVars, longVars, closes, daily, dmVars>>

DeleteOldZtPool ==
    /\ \E days \in KeepDays, stuck \in SUBSET PoolDays :
          LET r == delete_old_zt_pool(storage, days, stuck)
          IN  /\ storage' = r.storage
              /\ storageCall' = [call |-> "delete_old_zt_pool", days |-> days,
                                 ret |-> r.ret]
    /\ UNCHANGED <<regimeVars, scannerVars, longVars, closes, daily, dmVars>>

InitStorage ==
    /\ storage = NoStorage
    /\ storageCall = NoCall
    /\ DmIdle
    /\ closes = NoCall
    /\ daily = NoCall
    /\ RegimeIdle
    /\ ScannerIdle
    /\ LongTermIdle

NextStorage == SaveZtPool \/ LoadZtPool \/ ListZtPoolDates \/ DeleteOldZtPool

SpecStorage == InitStorage /\ [][NextStorage]_vars

\* ------------------------------------------------------------------------
\* LongTerm DataManager, the Parquet saves and their versions
\* (src/LongTerm/data_manager.py)

MaxVersion == 3     \* saves of one name
DataNames == {"prices", "returns"}
RecordCounts == {1, 2}

update_version_reset(tables, name, count) ==
    [tables EXCEPT !.data_versions =
        Put(@, name, [version |-> 1, record_count |-> count])]

\* _update_version(name, count): INSERT OR REPLACE with
\* COALESCE((SELECT version ...), 0) + 1.
update_version(tables, name, count) ==
    [tables EXCEPT !.data_versions =
        Put(@, name,
            [version |-> (IF name \in DOMAIN @ THEN @[name].version ELSE 0) + 1,
             record_count |-> count])]

\* get_version(name): the row of the name, or the empty dict.
get_version(tables, name) ==
    IF name \in DOMAIN tables.data_versions THEN tables.data_versions[name] ELSE EmptyDict

\* save_prices(df) and save_returns(df) on a frame of `count` rows;
\* `written` tells whether to_parquet succeeds.  Without pyarrow the frame
\* goes to a CSV file and no version is recorded.
save_frame(tables, name, count, written) ==
    IF ~tables.pyarrow THEN [tables |-> tables, ret |-> TRUE]
    ELSE IF ~written THEN [tables |-> tables, ret |-> FALSE]
    ELSE [tables |-> update_version(tables, name, count), ret |-> TRUE]

VersionOf(tables, name) ==
    IF name \in DOMAIN tables.data_versions THEN tables.data_versions[name].version ELSE 0

SaveFrame(name, call) ==
    /\ VersionOf(dataManager, name) < MaxVersion
    /\ \E count \in RecordCounts, written \in BOOLEAN :
          LET r == save_frame(dataManager, name, count, written)
          IN  /\ dataManager' = r.tables
              /\ dmCall' = [call |-> call, ret |-> r.ret]
    /\ UNCHANGED <<shortSignals, regimeVars, scannerVars, longVars,
                   closes, daily, storage, storageCall>>

SavePrices == SaveFrame("prices", "save_prices")

SaveReturns == SaveFrame("returns", "save_returns")

GetVersion ==
    /\ \E name \in DataNames :
          dmCall' = [call |-> "get_version", name |-> name,
                     ret |-> get_version(dataManager, name)]
    /\ UNCHANGED <<dataManager, shortSignals, regimeVars, scannerVars, longVars,
                   closes, daily, storage, storageCall>>

InitVersions ==
    /\ dataManager \in [pyarrow : BOOLEAN, data_versions : {<<>>}, daily_signals : {<<>>}]
    /\ shortSignals = NoFile
    /\ dmCall = NoCall
    /\ closes = NoCall
    /\ daily = NoCall
    /\ storage = NoStorage
    /\ storageCall = NoCall
    /\ RegimeIdle
    /\ ScannerIdle
    /\ LongTermIdle

NextVersions == SavePrices \/ SaveReturns \/ GetVersion

SpecVersions == InitVersions /\ [][NextVersions]_vars

\* ------------------------------------------------------------------------
\* The daily-signal stores: the JSON file of ShortTermDataManager
\* (src/ShortTerm/data_manager.py, src/Strategy_Event_ShortTerm/data_manager.py,
\* the same two methods) and the daily_signals table of the LongTerm
\* DataManager (src/LongTerm/data_manager.py)

SignalDates == {"20240101", "20240102"}

\* The date argument of ShortTermDataManager.get_daily_signals: a date or
\* None.
DateArgs == SignalDates \cup {"None"}

\* None in an integer column.
NoneCount == -1

\* The dicts handed to save_daily_signals: bundles of a scan, with or
\* without a date of their own, and the message dict of an empty scan.
SignalBundles ==
    {[total_zt_count |-> 1, signals |-> <<"watch A">>, hot_sectors |-> <<"A">>,
      generated_at |-> "earlier"],
     [date |-> "20240101", total_zt_count |-> 2, signals |-> <<>>, hot_sectors |-> <<>>,
      generated_at |-> "earlier"],
     [date |-> "20240102", hot_sectors |-> <<>>, message |-> "no_limit_up_data"]}

\* ShortTermDataManager.save_daily_signals(date, signals): the file it
\* leaves (json.dump of the dict after the two assignments).
save_daily_signals(date, signals) ==
    [kind |-> "file",
     content |-> Put(Put(signals, "date", date), "generated_at", "now")]

get_daily_signals_any(file, date) ==
    IF file = NoFile THEN EmptyDict ELSE file.content

\* ShortTermDataManager.get_daily_signals(date)
get_daily_signals(file, date) ==
    IF file = NoFile THEN EmptyDict
    ELSE IF date = "None" \/ GetOr(file.content, "date", "None") = date
    THEN file.content
    ELSE EmptyDict

\* DataManager.save_daily_signals(date, signals): INSERT OR REPLACE of the
\* row of the date.
DataManager_save_daily_signals(tables, date, signals) ==
    [tables EXCEPT !.daily_signals =
        Put(@, date,
            [total_zt_count |-> GetOr(signals, "total_zt_count", NoneCount),
             signals_json |-> GetOr(signals, "signals", <<>>),
             hot_sectors_json |-> GetOr(signals, "hot_sectors", <<>>),
             generated_at |-> GetOr(signals, "generated_at", "None")])]

\* DataManager.get_daily_signals(date)
DataManager_get_daily_signals(tables, date) ==
    IF date \in DOMAIN tables.daily_signals
    THEN LET row == tables.daily_signals[date]
         IN  [date |-> date,
              total_zt_count |-> row.total_zt_count,
              signals |-> row.signals_json,
              hot_sectors |-> row.hot_sectors_json,
              generated_at |-> row.generated_at]
    ELSE EmptyDict

ShortSaveDailySignals ==
    /\ \E date \in SignalDates, signals \in SignalBundles :
          /\ shortSignals' = save_daily_signals(date, signals)
          /\ dmCall' = [call |-> "ShortTermDataManager.save_daily_signals",
                        date |-> date, signals |-> signals]
    /\ UNCHANGED <<dataManager, regimeVars, scannerVars, longVars,
                   closes, daily, storage, storageCall>>

ShortGetDailySignals ==
    /\ \E date \in DateArgs :
          dmCall' = [call |-> "ShortTermDataManager.get_daily_signals",
                     date |-> date, ret |-> get_daily_signals(shortSignals, date)]
    /\ UNCHANGED <<dataManager, shortSignals, regimeVars, scannerVars, longVars,
                   closes, daily, storage, storageCall>>

LongSaveDailySignals ==
    /\ \E date \in SignalDates, signals \in SignalBundles :
          /\ dataManager' = DataManager_save_daily_signals(dataManager, date, signals)
          /\ dmCall' = [call |-> "DataManager.save_daily_signals",
                        date |-> date, signals |-> signals, ret |-> TRUE]
    /\ UNCHANGED <<shortSignals, regimeVars, scannerVars, longVars,
                   closes, daily, storage, storageCall>>

LongGetDailySignals ==
    /\ \E date \in SignalDates :
          dmCall' = [call |-> "DataManager.get_daily_signals",
                     date |-> date,
                     ret |-> DataManager_get_daily_signals(dataManager, date)]
    /\ UNCHANGED <<dataManager, shortSignals, regimeVars, scannerVars, longVars,
                   closes, daily, storage, storageCall>>

InitSignals ==
    /\ dataManager = NoTables
    /\ shortSignals = NoFile
    /\ dmCall = NoCall
    /\ closes = NoCall
    /\ daily = NoCall
    /\ storage = NoStorage
    /\ storageCall = NoCall
    /\ RegimeIdle
    /\ ScannerIdle
    /\ LongTermIdle

NextSignals ==
    \/ ShortSaveDailySignals
    \/ ShortGetDailySignals
    \/ LongSaveDailySignals
    \/ LongGetDailySignals

SpecSignals == InitSignals /\ [][NextSignals]_vars

\* ------------------------------------------------------------------------
\* Properties of the value/trend gate and of the universe filter

GateReturned ==
    /\ longRun.call \in {"analyze_stock", "check_buy_signal"}
    /\ longRun.ret.kind = "ok"
    /\ "details" \in DOMAIN longRun.ret.value

\* The number of trend flags a result reports as set.
FlagsSet(result) ==
    BoolCount(result.details.ma_ok, result.details.rsrs_ok, result.details.llt_ok)

\* The verdict table of the specification, on a percentile in 1/1000.
DocumentedVerdict(p, count) ==
    CASE p < 400 /\ count >= 2 -> "STRONG_BUY"
      [] p < 400 /\ count = 1 -> "WATCH_LIST"
      [] p < 400 /\ count = 0 -> "WAIT"
      [] p >= 400 -> "IGNORE"

\* C1: on sufficient history, analyze_stock and check_buy_signal return
\* STRONG_BUY when the percentile is below 0.4 and at least two of the
\* three trend flags are set, WATCH_LIST with exactly one, WAIT with none,
\* and IGNORE whenever the percentile is 0.4 or more; value_score is 1
\* exactly when the percentile is below 0.4, and trend_score is the number
\* of set flags divided by 3.
C1_VerdictTable ==
    GateReturned =>
        LET result == longRun.ret.value
            count == FlagsSet(result)
        IN  /\ result.status = DocumentedVerdict(stock.pe, count)
            /\ result.value_score = (IF stock.pe < 400 THEN 1 ELSE 0)
            /\ 3 * result.trend_score = 300 * count

C1_Witness ==
    /\ GateReturned
    /\ longRun.call = "analyze_stock"
    /\ stock.pe = 396
    /\ FlagsSet(longRun.ret.value) = 2
    /\ longRun.ret.value.status = "STRONG_BUY"
    /\ longRun.ret.value.trend_score = 200

\* Whether a call of run applies the trend filter.
FilterApplied ==
    /\ longRun.call = "run"
    /\ \/ longRun.apply_trend_filter = "True"
       \/ longRun.apply_trend_filter = "None" /\ universe.config.enabled

\* C9: for a universe whose history is shorter than the moving-average
\* period, analyze_all_stocks and the universe filter of run complete
\* normally, every symbol being reported INSUFFICIENT_DATA.
C9_ShortHistoryCompletes ==
    (/\ longRun.call = "analyze_all_stocks" \/ FilterApplied
     /\ universe.panel.len < universe.config.ma_period)
    => /\ longRun.ret.kind = "ok"
       /\ LET results == IF longRun.call = "run"
                         THEN longRun.ret.value.analysis_results
                         ELSE longRun.ret.value
          IN  \A s \in SymbolSet : results[s].status = "INSUFFICIENT_DATA"

FilterCompleted == FilterApplied /\ longRun.ret.kind = "ok"

KeptSet == {longRun.ret.value.kept[i] : i \in DOMAIN longRun.ret.value.kept}

\* C10 as stated: the universe filter keeps a symbol iff its verdict is
\* STRONG_BUY, or WATCH_LIST with trend_score at least the configured
\* minimum, or its percentile is below 0.2, and it has at least 250
\* non-null returns; a WAIT symbol with a percentile in [0.2, 0.4) is never
\* kept, whatever the configured minimum.
C10_UniverseFilter ==
    FilterCompleted =>
        \A s \in SymbolSet :
            LET result == longRun.ret.value.analysis_results[s]
            IN  /\ s \in KeptSet <=>
                      /\ \/ result.status = "STRONG_BUY"
                         \/ /\ result.status = "WATCH_LIST"
                            /\ result.trend_score >= universe.config.min_trend_score
                         \/ result.pe_percentile < 20
                      /\ universe.panel.obs[s] >= 250
                /\ (result.status = "WAIT" /\ result.pe_percentile >= 20
                    /\ result.pe_percentile < 40) => s \notin KeptSet

\* C10, amended: the universe filter keeps a symbol iff its value_score is
\* 1 and its trend_score is at least the configured minimum, or its
\* reported percentile is below 0.2, and it has at least 250 non-null
\* returns.  A WAIT symbol with a percentile in [0.2, 0.4) is kept only
\* under a configured minimum of 0 or less, and a STRONG_BUY symbol is
\* dropped only for too few returns or a trend_score below the minimum.
C10_FilterByScores ==
    FilterCompleted =>
        \A s \in SymbolSet :
            LET result == longRun.ret.value.analysis_results[s]
                min_score == universe.config.min_trend_score
            IN  /\ s \in KeptSet <=>
                      /\ \/ result.value_score = 1 /\ result.trend_score >= min_score
                         \/ result.pe_percentile < 20
                      /\ universe.panel.obs[s] >= 250
                /\ (result.status = "WAIT" /\ result.pe_percentile >= 20
                    /\ s \in KeptSet) => min_score <= 0
                /\ (result.status = "STRONG_BUY" /\ s \notin KeptSet)
                       => \/ universe.panel.obs[s] < 250
                          \/ result.trend_score < min_score

C10_Witness ==
    /\ FilterCompleted
    /\ universe.config.min_trend_score = 0
    /\ \E s \in KeptSet :
          /\ longRun.ret.value.analysis_results[s].status = "WAIT"
          /\ longRun.ret.value.analysis_results[s].pe_percentile = 30
    /\ \E s \in SymbolSet \ KeptSet :
          /\ longRun.ret.value.analysis_results[s].status = "STRONG_BUY"
          /\ universe.panel.obs[s] < 250

\* ------------------------------------------------------------------------
\* Properties of the fallback of run and of optimize_portfolio

\* The window of the entry at position i (from 0) of the series.
WindowOf(i) == SubSeq(bars.rows, i - bars.n + 1, i)

\* C17: calculate_rsrs returns a series as long as its input whose first n
\* entries are undefined, and whose later entries are undefined whenever
\* the highs or the lows of their window are all equal.
C17_RsrsSeries ==
    longRun.call = "calculate_rsrs" =>
        /\ longRun.ret.kind = "ok"
        /\ LET rsrs == longRun.ret.value
           IN  /\ Len(rsrs) = Len(bars.rows)
               /\ \A i \in 0..(Len(rsrs) - 1) :
                     \/ i < bars.n
                     \/ AllEqual([k \in 1..bars.n |-> WindowOf(i)[k].high])
                     \/ AllEqual([k \in 1..bars.n |-> WindowOf(i)[k].low])
                     => rsrs[i + 1] = NanEntry

\* C18: on a short series (fewer than 20 rows, the empty and the one-row
\* frame included, under every moving-average period) analyze_stock and
\* check_buy_signal do not raise: they return a result.
C18_ShortSeriesReturn ==
    (/\ longRun.call \in {"analyze_stock", "check_buy_signal"}
     /\ stock.frame.len < SlopeLag)
    => longRun.ret.kind = "ok"

\* analyze_all_stocks has returned a result per symbol.
AnalysisReturned ==
    /\ longRun.call = "analyze_all_stocks"
    /\ longRun.ret.kind = "ok"

\* The symbols the caller supplied no percentile for.
Unsupplied(pe_percentiles) ==
    IF pe_percentiles.given THEN SymbolSet \ DOMAIN pe_percentiles.map
    ELSE SymbolSet

\* C15: a symbol with no supplied PE percentile, the case of no map at all
\* included, is analysed at percentile 0.5: its value score is 0 and its
\* verdict is IGNORE.
C15_AbsentPercentileIgnored ==
    AnalysisReturned =>
        \A s \in Unsupplied(longRun.pe_percentiles) :
            LET result == longRun.ret.value[s]
            IN  /\ result.pe_percentile = 50
                /\ result.value_score = 0
                /\ result.status = "IGNORE"

\* C11: the symbols run hands to the optimizer are the filtered symbols
\* when at least 2 survive the filter and the whole unfiltered universe
\* when fewer than 2 survive; they are never 0 or 1 filtered symbols, and
\* a run that falls back still returns its weights, one per symbol handed
\* over.
C11_FallbackToUniverse ==
    (FilterApplied /\ universe.panel.len >= universe.config.ma_period) =>
        /\ longRun.ret.kind = "ok"
        /\ LET v == longRun.ret.value
           IN  /\ v.symbols = (IF Len(v.kept) >= 2 THEN v.kept ELSE Symbols)
               /\ Len(v.symbols) >= 2
               /\ [i \in 1..Len(v.weights) |-> v.weights[i].symbol] = v.symbols

C11_Witness ==
    /\ FilterCompleted
    /\ Len(longRun.ret.value.kept) = 1
    /\ longRun.ret.value.symbols = Symbols
    /\ Len(longRun.ret.value.weights) = 3

OptimizeReturned ==
    /\ longRun.call = "optimize_portfolio"
    /\ longRun.ret.kind = "ok"

ReturnedWeights == [i \in 1..Len(longRun.ret.value) |-> longRun.ret.value[i].weight]

\* n * w_min <= 1 <= n * w_max: some weights satisfy the bounds and sum to 1.
BoundsAdmitSolution(n, bounds) ==
    n * bounds.w_min <= WeightScale /\ WeightScale <= n * bounds.w_max

\* C12 as stated: the returned weights sum to 1 within 1e-6 and lie within
\* [w_min, w_max], for every number of assets and every bounds, on
\* convergence and on the equal-weight fallback.  (Returned weights are
\* multiples of 0.0001, so their sum is within 1e-6 of 1 only if it is 1.)
C12_WeightsSumAndBounds ==
    OptimizeReturned =>
        /\ SumSeq(ReturnedWeights) = WeightScale
        /\ \A i \in 1..Len(ReturnedWeights) :
              /\ ReturnedWeights[i] >= BoundsOf(portfolio.constraints).w_min
              /\ ReturnedWeights[i] <= BoundsOf(portfolio.constraints).w_max

\* C12, amended: the returned weights are the solver's weights, or the
\* equal weights on fallback, rounded to 4 decimals and not renormalized:
\* there is one per asset, their sum is within n * 0.00005 of 1, and each
\* lies within [w_min, w_max] whenever the bounds admit a solution; when
\* they admit none, the equal weights are returned.
C12_RoundedWeights ==
    OptimizeReturned =>
        LET n == Len(portfolio.columns)
            bounds == BoundsOf(portfolio.constraints)
        IN  /\ Len(ReturnedWeights) = n
            /\ 2 * Abs(SumSeq(ReturnedWeights) - WeightScale) <= n
            /\ BoundsAdmitSolution(n, bounds) =>
                  \A i \in 1..n : /\ ReturnedWeights[i] >= bounds.w_min
                                  /\ ReturnedWeights[i] <= bounds.w_max
            /\ ~BoundsAdmitSolution(n, bounds) =>
                  \A i \in 1..n : ReturnedWeights[i] = Round4(Ratio(1, n))

C12_Witness ==
    /\ OptimizeReturned
    /\ portfolio.answer.kind = "success"
    /\ Len(portfolio.columns) = 3
    /\ SumSeq(ReturnedWeights) = 9999

\* What optimize_portfolio returns for the same columns and constraints
\* when the solver converges.
ResultsOnConvergence ==
    {optimize_portfolio(portfolio.columns, portfolio.constraints, a) :
        a \in {b \in SolverAnswers(Len(portfolio.columns),
                                   BoundsOf(portfolio.constraints), WeightGrid) :
                 b.kind = "success"}}

\* C13: when the solver reports non-convergence or raises, the call
\* returns the equal weights 1/n, one row per input column in column
\* order, and the result carries a warning that the fallback was used:
\* it is not a result the call returns on convergence.
C13_FallbackWarned ==
    (longRun.call = "optimize_portfolio" /\ portfolio.answer.kind # "success") =>
        /\ longRun.ret.kind = "ok"
        /\ longRun.ret.value =
              [i \in 1..Len(portfolio.columns) |->
                 [symbol |-> portfolio.columns[i],
                  weight |-> Round4(Ratio(1, Len(portfolio.columns)))]]
        /\ longRun.ret.value \notin ResultsOnConvergence

\* ------------------------------------------------------------------------
\* Properties of the moving-average status

\* The moving average at the last row and 20 rows before it are defined.
TwentyBack ==
    Len(closes.close) - SlopeLag >= closes.ma_period

\* The status the specification documents: the slope compares the moving
\* average with its value 20 observations earlier.
DocumentedStatus ==
    LET len == Len(closes.close)
    IN  StatusOf(closes.close[len], closes.ma_period,
                 RollingSum(closes.close, closes.ma_period, len),
                 RollingSum(closes.close, closes.ma_period, len - SlopeLag))

\* C21: the trend status at the last point is taken from the slope
\* (MA[t] - MA[t-20]) / 20 and the position of the price against the MA,
\* and maOk holds exactly when the status is STRONG_UP or UP.
C21_SlopeOverTwentyRows ==
    TwentyBack =>
        /\ longRun.call = "ma_trend_status" => longRun.ret = DocumentedStatus
        /\ longRun.call = "analyze_stock_ma" =>
              /\ longRun.ret.kind = "ok"
              /\ longRun.ret.value = (DocumentedStatus \in {"STRONG_UP", "UP"})

\* ------------------------------------------------------------------------
\* Further properties of the value/trend gate

\* C22: rsrs_ok of a returned result is true exactly when the last RSRS
\* z-score is defined and strictly greater than the rsrs_threshold the
\* caller gave, in analyze_stock and in check_buy_signal.
C22_CallerThreshold ==
    GateReturned =>
        longRun.ret.value.details.rsrs_ok
            = (stock.frame.rsrs_z # NaN /\ stock.frame.rsrs_z > stock.rsrs_threshold)

\* ------------------------------------------------------------------------
\* Properties of the daily entry point and further properties of the
\* regime classifier

\* C23: in one run of main, the position multiplier and the sector
\* preference displayed are those of the regime displayed before them.
C23_DisplayedTogether ==
    /\ "multiplier" \in DOMAIN daily => daily.multiplier = PositionOf(daily.regime)
    /\ "preference" \in DOMAIN daily => daily.preference = PreferenceOf(daily.regime)

\* C24: whatever the sources answer, the currency change handed to the
\* scoring is 0, the score returned by get_market_status is 0, 2, 4 or 6,
\* and DEFENSIVE is returned only when the north-bound average is below
\* -50 and the gold change is above 0.02.
C24_ScoreRange ==
    StatusReturned =>
        LET status == regimeCall.ret
        IN  /\ status.factors.currency.change_5d = Ratio(0, 1)
            /\ status.score \in {0, 2, 4, 6}
            /\ status.regime = "DEFENSIVE" =>
                  /\ status.factors.north_money.recent_3d_avg < -50
                  /\ RatioGt(status.factors.gold.change_5d, 2, 100)

\* The market moved the pair by 2.5% in five days while north-bound money
\* flowed out and gold rose: the score is 6, not 10.
C24_Witness ==
    /\ StatusReturned
    /\ sources.fx.kind = "ok"
    /\ RatioGt(sources.fx.chg5d, 2, 100)
    /\ regimeCall.ret.score = 6
    /\ regimeCall.ret.regime = "DEFENSIVE"

\* ------------------------------------------------------------------------
\* Properties of the storage engine

\* Every listed date has a stored table that load_zt_pool returns
\* non-empty.
ListedAreLoadable ==
    \A d \in list_zt_pool_dates(storage) :
        /\ d \in DOMAIN storage.files
        /\ ~IsEmpty(load_zt_pool(storage, d))

SaveCallOf(name) == IF name = "prices" THEN "save_prices" ELSE "save_returns"

\* C29: the version of a data name is 1 after its first successful Parquet
\* save and one more after each later one; a failed save, a save of the
\* other name and every other call leave it as it was.
C29_VersionCounts ==
    [][\A name \in DataNames :
          IF /\ dmCall'.call = SaveCallOf(name)
             /\ dmCall'.ret
             /\ dataManager.pyarrow
          THEN VersionOf(dataManager', name) = VersionOf(dataManager, name) + 1
          ELSE VersionOf(dataManager', name) = VersionOf(dataManager, name)]_vars

\* The second successful save of prices after one of returns.
C29_Witness ==
    /\ dmCall.call = "save_prices"
    /\ dmCall.ret
    /\ VersionOf(dataManager, "prices") = 2
    /\ VersionOf(dataManager, "returns") = 1

\* What the two stores answer after a save of `signals` under `date`, when
\* a read of that date is to return `short` from the file and `long` from
\* the table: the file answers `short` for the date and for None and the
\* empty dict for every other date; the table answers `long` for the date
\* and what it answered before for every other date.
StoresAnswer(short, long) ==
    /\ dmCall'.call = "ShortTermDataManager.save_daily_signals" =>
          /\ get_daily_signals(shortSignals', dmCall'.date) = short
          /\ get_daily_signals(shortSignals', "None") = short
          /\ \A d \in SignalDates \ {dmCall'.date} :
                get_daily_signals(shortSignals', d) = EmptyDict
    /\ dmCall'.call = "DataManager.save_daily_signals" =>
          /\ DataManager_get_daily_signals(dataManager', dmCall'.date) = long
          /\ \A d \in SignalDates \ {dmCall'.date} :
                DataManager_get_daily_signals(dataManager', d)
                   = DataManager_get_daily_signals(dataManager, d)

\* C30: the short-term store holds one bundle: after save_daily_signals(d,
\* s), get_daily_signals(d) and get_daily_signals(None) return s with its
\* date set to d and every other date reads as the empty dict; the table
\* of the LongTerm DataManager keeps one bundle per date and returns the
\* last one saved for each date.
C30_StoresReturnSaved ==
    [][\A s \in SignalBundles :
          (dmCall'.call \in {"ShortTermDataManager.save_daily_signals",
                             "DataManager.save_daily_signals"}
           /\ dmCall'.signals = s)
          => StoresAnswer(Put(s, "date", dmCall'.date),
                          Put(s, "date", dmCall'.date))]_vars

\* C30, as the code has it: the file returns s with date set to d and
\* generated_at set to the time of the save; the table returns, for each
\* date, the date with the total_zt_count, signals, hot_sectors and
\* generated_at of the last dict saved for it (None, empty lists and None
\* where the dict has none), and no other field.
C30_StoresReturnStored ==
    [][\A s \in SignalBundles :
          (dmCall'.call \in {"ShortTermDataManager.save_daily_signals",
                             "DataManager.save_daily_signals"}
           /\ dmCall'.signals = s)
          => StoresAnswer(Put(Put(s, "date", dmCall'.date), "generated_at", "now"),
                          [date |-> dmCall'.date,
                           total_zt_count |-> GetOr(s, "total_zt_count", NoneCount),
                           signals |-> GetOr(s, "signals", <<>>),
                           hot_sectors |-> GetOr(s, "hot_sectors", <<>>),
                           generated_at |-> GetOr(s, "generated_at", "None")])]_vars

\* The file holds the bundle of the second date, a read of the first date
\* has returned the empty dict, and the table holds both dates.
C30_Witness ==
    /\ dmCall.call = "ShortTermDataManager.get_daily_signals"
    /\ dmCall.date = "20240101"
    /\ dmCall.ret = EmptyDict
    /\ shortSignals # NoFile
    /\ shortSignals.content.date = "20240102"
    /\ DOMAIN dataManager.daily_signals = SignalDates

=============================================================================
